---- MODULE Spec2Model ----
(***************************************************************************)
(* A model of app/services/simulation_engine.py (SimulationEngine) of the  *)
(* AI decision simulator: the engine's run configuration, the dispatch of  *)
(* run_simulation over the four decision kinds, the four projection        *)
(* strategies and the Monte Carlo samplers.                                *)
(*                                                                         *)
(* Numbers.  The program computes in Python floats and rounds what it      *)
(* reports to 2 decimals.  Every quantity the strategies compute from the  *)
(* inputs used here is a finite decimal, so the model computes it exactly, *)
(* as a decimal of arbitrary size, and rounds it where the code rounds     *)
(* (to the nearest, ties to even).  Reported money is an integer number    *)
(* of cents.  Binary floating point can land a cent away from the exact    *)
(* decimal where a value lies half-way between two cents; the amounts and  *)
(* variates used as inputs below are ones for which the two agree.         *)
(***************************************************************************)
EXTENDS Integers, Sequences, FiniteSets, TLC

\* ------------------------------------------------------------------------
\* Natural numbers of arbitrary size: little-endian sequences of limbs in
\* base Base, without high zero limbs; << >> is 0.

Base == 100 * 100

Limb(a) == IF a = << >> THEN 0 ELSE Head(a)

Rest(a) == IF a = << >> THEN a ELSE Tail(a)

RECURSIVE BigNorm(_)
BigNorm(a) ==
    IF a = << >> THEN << >>
    ELSE IF a[Len(a)] = 0 THEN BigNorm(SubSeq(a, 1, Len(a) - 1))
    ELSE a

RECURSIVE BigFromNat(_)
BigFromNat(n) ==
    IF n = 0 THEN << >> ELSE <<n % Base>> \o BigFromNat(n \div Base)

RECURSIVE BigToNat(_)
BigToNat(a) ==
    IF a = << >> THEN 0 ELSE Head(a) + Base * BigToNat(Tail(a))

\* a + b + c, c the carry
RECURSIVE BigAdd(_, _, _)
BigAdd(a, b, c) ==
    IF a = << >> /\ b = << >> THEN BigFromNat(c)
    ELSE <<(Limb(a) + Limb(b) + c) % Base>>
         \o BigAdd(Rest(a), Rest(b), (Limb(a) + Limb(b) + c) \div Base)

\* a - b - c for a >= b + c, c the borrow; high zero limbs are left
RECURSIVE BigSub(_, _, _)
BigSub(a, b, c) ==
    IF a = << >> THEN << >>
    ELSE <<(Head(a) - Limb(b) - c + Base) % Base>>
         \o BigSub(Tail(a), Rest(b), IF Head(a) - Limb(b) - c < 0 THEN 1 ELSE 0)

\* -1, 0, 1 as a < b, a = b, a > b
RECURSIVE BigCmp(_, _)
BigCmp(a, b) ==
    IF Len(a) # Len(b) THEN (IF Len(a) < Len(b) THEN -1 ELSE 1)
    ELSE IF a = << >> THEN 0
    ELSE IF a[Len(a)] # b[Len(b)] THEN (IF a[Len(a)] < b[Len(b)] THEN -1 ELSE 1)
    ELSE BigCmp(SubSeq(a, 1, Len(a) - 1), SubSeq(b, 1, Len(b) - 1))

\* a * k + c for 0 <= k < Base; high zero limbs are left when k = 0
RECURSIVE BigMulSmall(_, _, _)
BigMulSmall(a, k, c) ==
    IF a = << >> THEN BigFromNat(c)
    ELSE <<(Head(a) * k + c) % Base>>
         \o BigMulSmall(Tail(a), k, (Head(a) * k + c) \div Base)

RECURSIVE BigMul(_, _)
BigMul(a, b) ==
    IF b = << >> THEN << >>
    ELSE BigNorm(BigAdd(BigMulSmall(a, Head(b), 0), <<0>> \o BigMul(a, Tail(b)), 0))

\* (r * Base^Len(a) + a) divided by k, 0 <= r < k: quotient q (high zero
\* limbs left) and remainder r
RECURSIVE BigDivSmall(_, _, _)
BigDivSmall(a, k, r) ==
    IF a = << >> THEN [q |-> << >>, r |-> r]
    ELSE [BigDivSmall(SubSeq(a, 1, Len(a) - 1), k, (r * Base + a[Len(a)]) % k)
            EXCEPT !.q = Append(@, (r * Base + a[Len(a)]) \div k)]

\* a * 10^d
RECURSIVE BigShift10(_, _)
BigShift10(a, d) ==
    IF d <= 0 THEN a
    ELSE IF d >= 4 THEN BigShift10(BigNorm(<<0>> \o a), d - 4)
    ELSE BigMulSmall(a, 10^d, 0)

\* a \div 10^d
RECURSIVE BigDrop10(_, _)
BigDrop10(a, d) ==
    IF d <= 0 THEN a
    ELSE IF d >= 4 THEN BigDrop10(Rest(a), d - 4)
    ELSE BigNorm(BigDivSmall(a, 10^d, 0).q)

\* ------------------------------------------------------------------------
\* Decimals: [neg, mag, exp] is (-1)^neg * mag * 10^-exp.

Dec(n, e) == [neg |-> n < 0, mag |-> BigFromNat(IF n < 0 THEN -n ELSE n), exp |-> e]

DecNeg(x) == [x EXCEPT !.neg = ~@]

\* x + y for magnitudes a of x and b of y, both with e decimals
DecAddAligned(xneg, a, yneg, b, e) ==
    IF xneg = yneg THEN [neg |-> xneg, mag |-> BigAdd(a, b, 0), exp |-> e]
    ELSE IF BigCmp(a, b) >= 0
    THEN [neg |-> xneg, mag |-> BigNorm(BigSub(a, b, 0)), exp |-> e]
    ELSE [neg |-> yneg, mag |-> BigNorm(BigSub(b, a, 0)), exp |-> e]

DecAdd(x, y) ==
    DecAddAligned(x.neg, BigShift10(x.mag, y.exp - x.exp),
                  y.neg, BigShift10(y.mag, x.exp - y.exp),
                  IF x.exp > y.exp THEN x.exp ELSE y.exp)

DecSub(x, y) == DecAdd(x, DecNeg(y))

DecMul(x, y) ==
    [neg |-> x.neg # y.neg, mag |-> BigMul(x.mag, y.mag), exp |-> x.exp + y.exp]

DecSign(x) == IF x.mag = << >> THEN 0 ELSE IF x.neg THEN -1 ELSE 1

DecLess(x, y) == DecSign(DecSub(x, y)) < 0

\* x ** n
RECURSIVE DecPow(_, _)
DecPow(x, n) == IF n = 0 THEN Dec(1, 0) ELSE DecMul(x, DecPow(x, n - 1))

\* num / den to the nearest integer, ties to even, q being num \div den
RoundNearest(num, den, q) ==
    IF 2 * BigCmp(BigMulSmall(BigNorm(BigSub(num, BigMul(BigFromNat(q), den), 0)), 2, 0),
                  den) + (q % 2) >= 1
    THEN q + 1 ELSE q

\* Python's round(x / n, d) for an integer n > 0, as the integer
\* round(x / n, d) * 10^d
RoundDiv(x, n, d) ==
    (IF x.neg THEN -1 ELSE 1)
    * RoundNearest(BigShift10(x.mag, d - x.exp),
                   BigShift10(BigFromNat(n), x.exp - d),
                   BigToNat(BigNorm(BigDivSmall(
                       BigDrop10(BigShift10(x.mag, d - x.exp), x.exp - d), n, 0).q)))

Round(x, d) == RoundDiv(x, 1, d)

\* round(x, 2) in cents
Round2(x) == Round(x, 2)

\* ------------------------------------------------------------------------
\* Statistics of a sample (a sequence of decimals), as numpy computes them,
\* rounded to cents where the code rounds them.

RECURSIVE DecSum(_)
DecSum(values) ==
    IF values = << >> THEN Dec(0, 0) ELSE DecAdd(Head(values), DecSum(Tail(values)))

\* round(np.mean(values), 2)
Mean2(values) == RoundDiv(DecSum(values), Len(values), 2)

\* the linear interpolation of the sorted sample at position k / 100, from 0
Interpolate(sorted, k) ==
    DecAdd(sorted[k \div 100 + 1],
           DecMul(DecSub(sorted[IF k \div 100 + 2 > Len(sorted) THEN Len(sorted)
                                ELSE k \div 100 + 2],
                         sorted[k \div 100 + 1]),
                  Dec(k % 100, 2)))

\* a faulty percentile that interpolates the sample as drawn, unsorted
Percentile2Unsorted(values, q) ==
    Round2(Interpolate(values, q * (Len(values) - 1)))

\* round(np.percentile(values, q), 2)
Percentile2(values, q) ==
    Round2(Interpolate(SortSeq(values, DecLess), q * (Len(values) - 1)))

\* the largest c in lo..hi with ((2c - 1) n)^2 <= 40000 v, v >= 0: the cents
\* nearest to 100 * sqrt(v) / n
RECURSIVE StdSearch(_, _, _, _)
StdSearch(v, n, lo, hi) ==
    IF lo >= hi THEN lo
    ELSE IF BigCmp(BigShift10(BigMul(BigFromNat((2 * ((lo + hi + 1) \div 2) - 1) * n),
                                     BigFromNat((2 * ((lo + hi + 1) \div 2) - 1) * n)),
                              v.exp),
                   BigMul(v.mag, BigFromNat(40000))) <= 0
    THEN StdSearch(v, n, (lo + hi + 1) \div 2, hi)
    ELSE StdSearch(v, n, lo, (lo + hi + 1) \div 2 - 1)

\* round(np.std(values), 2), the population standard deviation
\* sqrt(mean((x - mean)^2)) = sqrt(n * sum(x^2) - sum(x)^2) / n
Std2(values) ==
    StdSearch(DecSub(DecMul(Dec(Len(values), 0),
                            DecSum([i \in DOMAIN values |->
                                      DecMul(values[i], values[i])])),
                     DecMul(DecSum(values), DecSum(values))),
              Len(values), 0,
              Round2(DecSub(SortSeq(values, DecLess)[Len(values)],
                            SortSeq(values, DecLess)[1])) + 1)

\* a faulty prob_loss that is the fraction itself, not a percentage
ProbLoss2Fraction(values, reference) ==
    RoundDiv(Dec(Cardinality({i \in DOMAIN values :
                                DecLess(values[i], reference)}), 0),
             Len(values), 2)

\* a faulty prob_loss that counts a value equal to the reference as a loss
ProbLoss2AtMost(values, reference) ==
    RoundDiv(Dec(100 * Cardinality({i \in DOMAIN values :
                                      ~DecLess(reference, values[i])}), 0),
             Len(values), 2)

\* round(np.mean(np.array(values) < reference) * 100, 2), in hundredths of a
\* percent
ProbLoss2(values, reference) ==
    RoundDiv(Dec(100 * Cardinality({i \in DOMAIN values :
                                      DecLess(values[i], reference)}), 0),
             Len(values), 2)

\* ------------------------------------------------------------------------
\* Strings the program inspects are sequences of characters.

Str ==
    [stocks      |-> <<"s", "t", "o", "c", "k", "s">>,
     bonds       |-> <<"b", "o", "n", "d", "s">>,
     real_estate |-> <<"r", "e", "a", "l", "_", "e", "s", "t", "a", "t", "e">>,
     crypto      |-> <<"c", "r", "y", "p", "t", "o">>,
     Crypto      |-> <<"C", "r", "y", "p", "t", "o">>,
     gold        |-> <<"g", "o", "l", "d">>,
     berlin      |-> <<"b", "e", "r", "l", "i", "n">>,
     Berlin      |-> <<"B", "e", "r", "l", "i", "n">>,
     Oslo        |-> <<"O", "s", "l", "o">>,
     A           |-> <<"A">>,
     B           |-> <<"B">>]

LowerCase ==
    [A |-> "a", B |-> "b", C |-> "c", D |-> "d", E |-> "e", F |-> "f", G |-> "g",
     H |-> "h", I |-> "i", J |-> "j", K |-> "k", L |-> "l", M |-> "m", N |-> "n",
     O |-> "o", P |-> "p", Q |-> "q", R |-> "r", S |-> "s", T |-> "t", U |-> "u",
     V |-> "v", W |-> "w", X |-> "x", Y |-> "y", Z |-> "z"]

\* a faulty str.lower() that leaves the case as it is
KeepCase(s) == s

\* str.lower()
Lower(s) ==
    [i \in DOMAIN s |-> IF s[i] \in DOMAIN LowerCase THEN LowerCase[s[i]] ELSE s[i]]

\* ------------------------------------------------------------------------
\* Dicts.  A dict the program only reads is a function; d.get(k, default):

EmptyDict == << >>

Get(d, k, default) == IF k \in DOMAIN d THEN d[k] ELSE default

\* The values the program iterates over carry their type: a list of names,
\* or a str passed where a list is expected.
PyList(elements) == [type |-> "list", val |-> elements]

PyStr(characters) == [type |-> "str", val |-> characters]

\* what a for loop over v visits: the elements of a list, the characters of
\* a str
Iterate(v) ==
    IF v.type = "str" THEN [i \in DOMAIN v.val |-> <<v.val[i]>>] ELSE v.val

\* sum(d.values())
RECURSIVE SumValues(_)
SumValues(d) ==
    IF DOMAIN d = {} THEN 0
    ELSE d[CHOOSE k \in DOMAIN d : TRUE]
         + SumValues([x \in DOMAIN d \ {CHOOSE k \in DOMAIN d : TRUE} |-> d[x]])

\* A dict the program builds is the sequence of its items [key, val] in
\* insertion order.
KeySet(items) == {items[i].key : i \in DOMAIN items}

Lookup(items, k) == items[CHOOSE i \in DOMAIN items : items[i].key = k].val

\* a faulty items[k] = v that also overwrites the values stored before
SetItemClobber(items, k, v) ==
    Append([i \in DOMAIN items |-> [key |-> items[i].key, val |-> v]],
           [key |-> k, val |-> v])

\* items[k] = v: a key already present keeps its place and takes the new value
SetItem(items, k, v) ==
    IF k \in KeySet(items)
    THEN [i \in DOMAIN items |->
            IF items[i].key = k THEN [key |-> k, val |-> v] ELSE items[i]]
    ELSE Append(items, [key |-> k, val |-> v])

\* ------------------------------------------------------------------------
\* The process-wide random source (numpy's global generator).  Its state is a
\* position on a cyclic tape of standard normal variates; one draw of
\* np.random.normal(mu, sigma) reads mu + sigma * z at the position and
\* advances it.

ZTape == <<1, -1, 1>>

\* the source as a run threads it: the position, and the variates drawn so far
Source(pos) == [pos |-> pos, drawn |-> 0]

Normal(mu, sigma, src) == DecAdd(mu, DecMul(sigma, Dec(ZTape[src.pos], 0)))

\* the source after k draws
Advance(src, k) ==
    [pos |-> ((src.pos - 1 + k) % Len(ZTape)) + 1, drawn |-> src.drawn + k]

\* ------------------------------------------------------------------------
\* Bounds of the model.

MaxHorizon == 2

MaxRuns == 2

MaxOptions == 2

MaxClock == 1

\* ------------------------------------------------------------------------
\* SimulationEngine.  self is [time_horizon, monte_carlo_runs].

DefaultHorizon == 5

SimulationEngineInit(time_horizon_years, monte_carlo_runs) ==
    [time_horizon |-> time_horizon_years, monte_carlo_runs |-> monte_carlo_runs]

\* What numpy reports for an empty sample.  np.mean and np.std of an empty
\* list are nan (with a warning); np.percentile of an empty list is nan in
\* some numpy releases and raises IndexError in others.
NaN == "nan"

EmptySamplePolicies == {"nan", "IndexError"}

\* the statistics a sampler returns under keys, each rounded as the code
\* rounds it
Summary(values, keys, initial_amount) ==
    [k \in keys |->
        CASE k = "mean"      -> Mean2(values)
          [] k = "std"       -> Std2(values)
          [] k = "p5"        -> Percentile2(values, 5)
          [] k = "p25"       -> Percentile2(values, 25)
          [] k = "p50"       -> Percentile2(values, 50)
          [] k = "p75"       -> Percentile2(values, 75)
          [] k = "p95"       -> Percentile2(values, 95)
          [] k = "prob_loss" -> ProbLoss2(values, initial_amount)]

\* A sampler's outcome once its trials have run: the summary (or the error
\* raised while reducing the sample), the number of terminal values
\* collected, the random source after the draws.
SamplerReturn(values, keys, initial_amount, src, policy) ==
    [summary |-> IF values # << >> THEN Summary(values, keys, initial_amount)
                 ELSE [k \in keys |-> NaN],
     error   |-> IF values = << >> /\ policy = "IndexError" THEN "IndexError"
                 ELSE "none",
     trials  |-> Len(values),
     src     |-> src]

\* one trial of _run_monte_carlo_savings, lines 257-272: the years left, from
\* the state (salary, cost, cumulative_savings); two draws a year
RECURSIVE SavingsTrial(_, _, _, _, _, _)
RECURSIVE SavingsYear(_, _, _, _, _, _)
SavingsTrial(salary, cost, cumulative_savings, tax_rate, years, src) ==
    IF years <= 0 THEN cumulative_savings
    ELSE SavingsYear(
             DecMul(salary, DecAdd(Dec(1, 0), Normal(Dec(2, 2), Dec(2, 2), src))),
             DecMul(cost, DecAdd(Dec(1, 0),
                                 Normal(Dec(3, 2), Dec(1, 2), Advance(src, 1)))),
             cumulative_savings, tax_rate, years, src)

\* lines 269-270, salary and cost being those of the year
SavingsYear(salary, cost, cumulative_savings, tax_rate, years, src) ==
    SavingsTrial(salary, cost,
                 DecAdd(cumulative_savings,
                        DecSub(DecMul(salary, DecSub(Dec(1, 0), tax_rate)), cost)),
                 tax_rate, years - 1, Advance(src, 2))

\* trial k starts where the draws of the trials before it have left the source
_run_monte_carlo_savings(self, base_salary, yearly_cost, tax_rate, src, policy) ==
    SamplerReturn(
        << >> \o [k \in 1..self.monte_carlo_runs |->
                    SavingsTrial(base_salary, yearly_cost, Dec(0, 0), tax_rate,
                                 self.time_horizon,
                                 Advance(src, (k - 1) * 2 * self.time_horizon))],
        {"mean", "std", "p5", "p25", "p50", "p75", "p95"}, Dec(0, 0),
        Advance(src, (IF self.monte_carlo_runs > 0 THEN self.monte_carlo_runs ELSE 0)
                     * 2 * (IF self.time_horizon > 0 THEN self.time_horizon ELSE 0)),
        policy)

\* one trial of _run_monte_carlo_salary, lines 293-297: one draw a year
RECURSIVE SalaryTrial(_, _, _, _)
SalaryTrial(salary, expected_growth, years, src) ==
    IF years <= 0 THEN salary
    ELSE SalaryTrial(DecMul(salary,
                            DecAdd(Dec(1, 0), Normal(expected_growth, Dec(3, 2), src))),
                     expected_growth, years - 1, Advance(src, 1))

_run_monte_carlo_salary(self, base_salary, expected_growth, src, policy) ==
    SamplerReturn(
        << >> \o [k \in 1..self.monte_carlo_runs |->
                    SalaryTrial(base_salary, expected_growth, self.time_horizon,
                                Advance(src, (k - 1) * self.time_horizon))],
        {"mean", "std", "p5", "p95"}, Dec(0, 0),
        Advance(src, (IF self.monte_carlo_runs > 0 THEN self.monte_carlo_runs ELSE 0)
                     * (IF self.time_horizon > 0 THEN self.time_horizon ELSE 0)),
        policy)

\* one trial of _run_monte_carlo_investment, lines 316-320: one draw a year
RECURSIVE InvestmentTrial(_, _, _, _, _)
InvestmentTrial(value, expected_return, volatility, years, src) ==
    IF years <= 0 THEN value
    ELSE InvestmentTrial(DecMul(value,
                                DecAdd(Dec(1, 0),
                                       Normal(expected_return, volatility, src))),
                         expected_return, volatility, years - 1, Advance(src, 1))

_run_monte_carlo_investment(self, initial_amount, expected_return, volatility, src, policy) ==
    SamplerReturn(
        << >> \o [k \in 1..self.monte_carlo_runs |->
                    InvestmentTrial(initial_amount, expected_return, volatility,
                                    self.time_horizon,
                                    Advance(src, (k - 1) * self.time_horizon))],
        {"mean", "std", "p5", "p25", "p50", "p75", "p95", "prob_loss"},
        initial_amount,
        Advance(src, (IF self.monte_carlo_runs > 0 THEN self.monte_carlo_runs ELSE 0)
                     * (IF self.time_horizon > 0 THEN self.time_horizon ELSE 0)),
        policy)

\* ------------------------------------------------------------------------
\* The strategies.  Each returns what run_simulation returns or raises:
\* [status, error, output], with the random source after the run (src) and
\* the number of terminal values each sampler call collected (trials).

\* a faulty raise that swallows the error: the call returns normally, with
\* nothing
Swallow(error, src, trials) ==
    [status |-> "ok", error |-> "none", output |-> << >>,
     src |-> src, trials |-> trials]

Raise(error, src, trials) ==
    [status |-> "error", error |-> error, output |-> << >>,
     src |-> src, trials |-> trials]

\* the return statement of a strategy, reached unless a sampler has raised
Return(acc, metadata) ==
    IF acc.error # "none" THEN Raise(acc.error, acc.src, acc.trials)
    ELSE [status |-> "ok", error |-> "none",
          output |-> [projections |-> acc.projections,
                      monte_carlo |-> acc.monte_carlo,
                      metadata    |-> metadata],
          src |-> acc.src, trials |-> acc.trials]

\* An Optional[dict]: None, or a dict
Null == [none |-> TRUE, dict |-> << >>]

Some(d) == [none |-> FALSE, dict |-> d]

\* the loop variables of a strategy before its first option
LoopStart(src) ==
    [projections |-> << >>, monte_carlo |-> Some(<< >>), src |-> src,
     trials |-> << >>, error |-> "none"]

\* a faulty loop body that stores the trajectory of an option and drops its
\* summary
LoopStepDropSummary(acc, option, yearly_projections, mc_results) ==
    [projections |-> SetItem(acc.projections, option, yearly_projections),
     monte_carlo |-> acc.monte_carlo,
     src         |-> mc_results.src,
     trials      |-> Append(acc.trials, mc_results.trials),
     error       |-> mc_results.error]

\* a faulty loop body whose trajectory depends on where the draws of the
\* sampler have left the random source
LoopStepShaky(acc, option, yearly_projections, mc_results) ==
    [projections |-> SetItem(acc.projections, option,
                             IF mc_results.src.pos = 1 THEN << >>
                             ELSE yearly_projections),
     monte_carlo |-> IF mc_results.error = "none"
                     THEN Some(SetItem(acc.monte_carlo.dict, option,
                                       mc_results.summary))
                     ELSE acc.monte_carlo,
     src         |-> mc_results.src,
     trials      |-> Append(acc.trials, mc_results.trials),
     error       |-> mc_results.error]

\* the loop variables after an option: its trajectory is stored, then its
\* sampler has returned a summary or raised
LoopStep(acc, option, yearly_projections, mc_results) ==
    [projections |-> SetItem(acc.projections, option, yearly_projections),
     monte_carlo |-> IF mc_results.error = "none"
                     THEN Some(SetItem(acc.monte_carlo.dict, option,
                                       mc_results.summary))
                     ELSE acc.monte_carlo,
     src         |-> mc_results.src,
     trials      |-> Append(acc.trials, mc_results.trials),
     error       |-> mc_results.error]

\* a faulty point whose cumulative savings are the savings of the year alone
RelocationPointFlat(adjusted_salary, adjusted_cost, net_income, year) ==
    [year               |-> year,
     gross_income       |-> Round2(adjusted_salary),
     net_income         |-> Round2(net_income),
     total_expenses     |-> Round2(adjusted_cost),
     savings            |-> Round2(DecSub(net_income, adjusted_cost)),
     cumulative_savings |-> Round2(DecSub(net_income, adjusted_cost))]

\* _simulate_relocation, lines 72-79: the point appended for a year
RelocationPoint(adjusted_salary, adjusted_cost, net_income, year) ==
    [year               |-> year,
     gross_income       |-> Round2(adjusted_salary),
     net_income         |-> Round2(net_income),
     total_expenses     |-> Round2(adjusted_cost),
     savings            |-> Round2(DecSub(net_income, adjusted_cost)),
     cumulative_savings |-> Round2(DecMul(DecSub(net_income, adjusted_cost),
                                          Dec(year, 0)))]

\* lines 62-70: costs inflate by 3 percent a year, the salary grows by 2
RelocationYear(base_salary, yearly_cost, effective_tax, year) ==
    RelocationPoint(DecMul(Dec(base_salary, 0), DecPow(Dec(102, 2), year)),
                    DecMul(Dec(yearly_cost, 0), DecPow(Dec(103, 2), year)),
                    DecMul(DecMul(Dec(base_salary, 0), DecPow(Dec(102, 2), year)),
                           DecSub(Dec(1, 0), effective_tax)),
                    year)

RECURSIVE RelocationLoop(_, _, _, _, _, _, _)
RECURSIVE RelocationCity(_, _, _, _, _, _, _, _, _, _)

\* a faulty loop whose tax rate is 0.25 where no effective_rate is known
RelocationLoopTax25(self, structured_data, external_data, cities, i, acc, policy) ==
    IF i > Len(cities) \/ acc.error # "none" THEN acc
    ELSE RelocationCity(self, structured_data, external_data, cities, i, acc, policy,
             Get(Get(external_data, "cost_of_living", EmptyDict),
                 Lower(cities[i]), EmptyDict),
             Get(Get(Get(external_data, "tax_rates", EmptyDict),
                     Lower(cities[i]), EmptyDict),
                 "effective_rate", Dec(25, 2)),
             Get(Get(structured_data, "user_context", EmptyDict), "salary", 80000))

\* lines 47-87: the loop from cities[i] on
RelocationLoop(self, structured_data, external_data, cities, i, acc, policy) ==
    IF i > Len(cities) \/ acc.error # "none" THEN acc
    ELSE RelocationCity(self, structured_data, external_data, cities, i, acc, policy,
             Get(Get(external_data, "cost_of_living", EmptyDict),
                 Lower(cities[i]), EmptyDict),
             Get(Get(Get(external_data, "tax_rates", EmptyDict),
                     Lower(cities[i]), EmptyDict),
                 "effective_rate", Dec(30, 2)),
             Get(Get(structured_data, "user_context", EmptyDict), "salary", 80000))

\* lines 53-87: the body of the loop for cities[i], once col, effective_tax
\* and base_salary are read
RelocationCity(self, structured_data, external_data, cities, i, acc, policy, col, effective_tax, base_salary) ==
    RelocationLoop(self, structured_data, external_data, cities, i + 1,
        LoopStep(acc, cities[i],
                 [year \in 1..self.time_horizon |->
                    RelocationYear(base_salary,
                                   (IF DOMAIN col # {} THEN SumValues(col) ELSE 2000) * 12,
                                   effective_tax, year)],
                 _run_monte_carlo_savings(self, Dec(base_salary, 0),
                     Dec((IF DOMAIN col # {} THEN SumValues(col) ELSE 2000) * 12, 0),
                     effective_tax, acc.src, policy)),
        policy)

_simulate_relocation(self, structured_data, external_data, src, now, policy) ==
    Return(RelocationLoop(self, structured_data, external_data,
                          Iterate(Get(structured_data, "cities", PyList(<< >>))), 1,
                          LoopStart(src), policy),
           [time_horizon_years |-> self.time_horizon,
            monte_carlo_runs   |-> self.monte_carlo_runs,
            simulation_date    |-> now])

RECURSIVE PurchaseYears(_, _, _, _, _)
RECURSIVE PurchaseYear(_, _, _, _, _)

\* faulty years in which the value grows by 15 percent
PurchaseYearsAppreciating(self, current_value, total_cost, yearly_maintenance, year) ==
    IF year > self.time_horizon THEN << >>
    ELSE PurchaseYear(self, DecMul(current_value, DecAdd(Dec(1, 0), Dec(15, 2))),
                      DecAdd(total_cost, yearly_maintenance),
                      yearly_maintenance, year)

\* _simulate_purchase, lines 119-129: the years from `year` on, from the
\* state (current_value, total_cost) of the year before
PurchaseYears(self, current_value, total_cost, yearly_maintenance, year) ==
    IF year > self.time_horizon THEN << >>
    ELSE PurchaseYear(self, DecMul(current_value, DecSub(Dec(1, 0), Dec(15, 2))),
                      DecAdd(total_cost, yearly_maintenance),
                      yearly_maintenance, year)

\* a faulty point whose net value forgets the costs
PurchaseYearGross(self, current_value, total_cost, yearly_maintenance, year) ==
    <<[year               |-> year,
       current_value      |-> Round2(current_value),
       maintenance_cost   |-> Round2(yearly_maintenance),
       total_cost_to_date |-> Round2(total_cost),
       net_value          |-> Round2(current_value)]>>
    \o PurchaseYears(self, current_value, total_cost, yearly_maintenance, year + 1)

\* lines 123-129, current_value and total_cost being those of the year
PurchaseYear(self, current_value, total_cost, yearly_maintenance, year) ==
    <<[year               |-> year,
       current_value      |-> Round2(current_value),
       maintenance_cost   |-> Round2(yearly_maintenance),
       total_cost_to_date |-> Round2(total_cost),
       net_value          |-> Round2(DecSub(current_value, total_cost))]>>
    \o PurchaseYears(self, current_value, total_cost, yearly_maintenance, year + 1)

\* a faulty trajectory that starts at year 2
PurchaseOptionFromYear2(self, initial_cost) ==
    PurchaseYears(self, initial_cost, initial_cost, DecMul(initial_cost, Dec(5, 2)), 2)

\* lines 112-129: the trajectory of an option of initial cost initial_cost
PurchaseOption(self, initial_cost) ==
    PurchaseYears(self, initial_cost, initial_cost, DecMul(initial_cost, Dec(5, 2)), 1)

\* lines 109-131: the loop from options[i] on; enumerate counts from 0
RECURSIVE PurchaseLoop(_, _, _, _, _)
PurchaseLoop(self, options, budget, i, projections) ==
    IF i > Len(options) THEN projections
    ELSE PurchaseLoop(self, options, budget, i + 1,
             SetItem(projections, options[i],
                     PurchaseOption(self,
                         DecMul(budget,
                                DecAdd(Dec(8, 1), DecMul(Dec(i - 1, 0), Dec(2, 1)))))))

\* a faulty _simulate_purchase whose budget is 40000 where none is given
PurchaseBudget40000(self, structured_data, external_data, src, now, policy) ==
    Return([LoopStart(src) EXCEPT
               !.projections = PurchaseLoop(self, Iterate(Get(structured_data, "options", PyList(<< >>))),
                                            Get(structured_data, "budget", Dec(40000, 0)),
                                            1, << >>),
               !.monte_carlo = Null],
           [time_horizon_years |-> self.time_horizon,
            simulation_date    |-> now])

_simulate_purchase(self, structured_data, external_data, src, now, policy) ==
    Return([LoopStart(src) EXCEPT
               !.projections = PurchaseLoop(self, Iterate(Get(structured_data, "options", PyList(<< >>))),
                                            Get(structured_data, "budget", Dec(50000, 0)),
                                            1, << >>),
               !.monte_carlo = Null],
           [time_horizon_years |-> self.time_horizon,
            simulation_date    |-> now])

\* _simulate_job, lines 159-168: the years from `year` on
RECURSIVE JobYears(_, _, _, _, _)
RECURSIVE JobYear(_, _, _, _, _, _)
JobYears(self, base_salary, growth_rate, cumulative_earnings, year) ==
    IF year > self.time_horizon THEN << >>
    ELSE JobYear(self, base_salary, growth_rate, cumulative_earnings, year,
                 DecMul(Dec(base_salary, 0),
                        DecPow(DecAdd(Dec(1, 0), growth_rate), year)))

\* a faulty point whose cumulative earnings are the salary of the year times
\* the year
JobYearFlat(self, base_salary, growth_rate, cumulative_earnings, year, current_salary) ==
    <<[year                |-> year,
       salary              |-> Round2(current_salary),
       cumulative_earnings |-> Round2(DecMul(current_salary, Dec(year, 0))),
       growth_rate         |-> Round(DecMul(growth_rate, Dec(100, 0)), 1)]>>
    \o JobYears(self, base_salary, growth_rate,
                DecAdd(cumulative_earnings, current_salary), year + 1)

\* lines 161-168, current_salary being that of the year
JobYear(self, base_salary, growth_rate, cumulative_earnings, year, current_salary) ==
    <<[year                |-> year,
       salary              |-> Round2(current_salary),
       cumulative_earnings |-> Round2(DecAdd(cumulative_earnings, current_salary)),
       growth_rate         |-> Round(DecMul(growth_rate, Dec(100, 0)), 1)]>>
    \o JobYears(self, base_salary, growth_rate,
                DecAdd(cumulative_earnings, current_salary), year + 1)

\* lines 151-174: the loop from options[i] on; enumerate counts from 0, so
\* base_salary = 70000 + (i - 1) * 15000, growth_rate = 0.05 + (i - 1) * 0.02
RECURSIVE JobLoop(_, _, _, _, _)
JobLoop(self, options, i, acc, policy) ==
    IF i > Len(options) \/ acc.error # "none" THEN acc
    ELSE JobLoop(self, options, i + 1,
             LoopStep(acc, options[i],
                      JobYears(self, 70000 + (i - 1) * 15000,
                               DecAdd(Dec(5, 2), DecMul(Dec(i - 1, 0), Dec(2, 2))),
                               Dec(0, 0), 1),
                      _run_monte_carlo_salary(self,
                               Dec(70000 + (i - 1) * 15000, 0),
                               DecAdd(Dec(5, 2), DecMul(Dec(i - 1, 0), Dec(2, 2))),
                               acc.src, policy)),
             policy)

_simulate_job(self, structured_data, external_data, src, now, policy) ==
    Return(JobLoop(self, Iterate(Get(structured_data, "options", PyList(<< >>))), 1,
                   LoopStart(src), policy),
           [time_horizon_years |-> self.time_horizon,
            monte_carlo_runs   |-> self.monte_carlo_runs,
            simulation_date    |-> now])

\* _simulate_investment, lines 198-203
investment_params ==
    (Str.stocks :> [return |-> Dec(10, 2), volatility |-> Dec(20, 2)])
    @@ (Str.bonds :> [return |-> Dec(5, 2), volatility |-> Dec(5, 2)])
    @@ (Str.real_estate :> [return |-> Dec(7, 2), volatility |-> Dec(10, 2)])
    @@ (Str.crypto :> [return |-> Dec(15, 2), volatility |-> Dec(50, 2)])

\* _simulate_investment, lines 219-226: the years from `year` on (amount > 0)
RECURSIVE InvestmentYears(_, _, _, _, _)
RECURSIVE InvestmentYear(_, _, _, _, _)
InvestmentYears(self, amount, expected_return, current_value, year) ==
    IF year > self.time_horizon THEN << >>
    ELSE InvestmentYear(self, amount, expected_return,
                        DecMul(current_value, DecAdd(Dec(1, 0), expected_return)),
                        year)

\* lines 221-226, current_value being that of the year;
\* (current_value / amount - 1) * 100 is (current_value - amount) * 100 / amount
InvestmentYear(self, amount, expected_return, current_value, year) ==
    <<[year              |-> year,
       value             |-> Round2(current_value),
       total_return      |-> Round2(DecSub(current_value, Dec(amount, 0))),
       return_percentage |->
           RoundDiv(DecMul(DecSub(current_value, Dec(amount, 0)), Dec(100, 0)),
                    amount, 2)]>>
    \o InvestmentYears(self, amount, expected_return, current_value, year + 1)

\* lines 205-234: the loop from options[i] on.  current_value / amount
\* raises ZeroDivisionError in the first year of the first option when amount
\* is 0, before any sampling
RECURSIVE InvestmentLoop(_, _, _, _, _, _)
RECURSIVE InvestmentOption(_, _, _, _, _, _, _)
InvestmentLoop(self, options, amount, i, acc, policy) ==
    IF i > Len(options) \/ acc.error # "none" THEN acc
    ELSE IF amount = 0 /\ self.time_horizon >= 1
    THEN [acc EXCEPT !.error = "ZeroDivisionError"]
    ELSE InvestmentOption(self, options, amount, i, acc, policy,
             Get(investment_params, Lower(options[i]),
                 [return |-> Dec(6, 2), volatility |-> Dec(12, 2)]))

\* lines 211-234: the body of the loop for options[i], params being the
\* entry found for it
InvestmentOption(self, options, amount, i, acc, policy, params) ==
    InvestmentLoop(self, options, amount, i + 1,
        LoopStep(acc, options[i],
                 InvestmentYears(self, amount, params.return, Dec(amount, 0), 1),
                 _run_monte_carlo_investment(self, Dec(amount, 0), params.return,
                                             params.volatility, acc.src, policy)),
        policy)

_simulate_investment(self, structured_data, external_data, src, now, policy) ==
    Return(InvestmentLoop(self, Iterate(Get(structured_data, "options", PyList(<< >>))),
                          Get(structured_data, "amount", 10000), 1,
                          LoopStart(src), policy),
           [time_horizon_years |-> self.time_horizon,
            monte_carlo_runs   |-> self.monte_carlo_runs,
            initial_amount     |-> Get(structured_data, "amount", 10000),
            simulation_date    |-> now])

\* DecisionType (app/schemas/schemas.py), a str-backed enum: a member equals
\* its value
DecisionType == {"relocation", "purchase", "job", "investment"}

\* run_simulation; `dispatched` records the strategy called
run_simulation(self, decision_type, structured_data, external_data, src, now, policy) ==
    IF decision_type = "relocation"
    THEN [dispatched |-> "_simulate_relocation",
          result |-> _simulate_relocation(self, structured_data, external_data,
                                          src, now, policy)]
    ELSE IF decision_type = "purchase"
    THEN [dispatched |-> "_simulate_purchase",
          result |-> _simulate_purchase(self, structured_data, external_data,
                                        src, now, policy)]
    ELSE IF decision_type = "job"
    THEN [dispatched |-> "_simulate_job",
          result |-> _simulate_job(self, structured_data, external_data,
                                   src, now, policy)]
    ELSE IF decision_type = "investment"
    THEN [dispatched |-> "_simulate_investment",
          result |-> _simulate_investment(self, structured_data, external_data,
                                          src, now, policy)]
    ELSE [dispatched |-> "none", result |-> Raise("ValueError", src, << >>)]

\* ------------------------------------------------------------------------
\* The inputs the callers are modelled to pass.

\* every list of at most MaxOptions elements of names
Lists(names) == {PyList(l) : l \in UNION {[1..k -> names] : k \in 0..MaxOptions}}

\* factors of a relocation: cities absent or a list; user_context absent,
\* without salary, with a salary
RelocationFactors ==
    {c @@ u : c \in {EmptyDict} \cup {"cities" :> l : l \in Lists({Str.Berlin, Str.Oslo})},
              u \in {EmptyDict, "user_context" :> [profession |-> "engineer"],
                     "user_context" :> [salary |-> 60000]}}

\* external_data as create_simulation builds it (keys in lower case, the
\* figures of DataService for Berlin), with neither mapping, with a tax
\* entry that has no effective_rate, and as another caller may key it (by
\* the name of the city as written)
ExternalData ==
    {EmptyDict,
     [cost_of_living |->
         Str.berlin :> [rent |-> 1200, food |-> 400, transport |-> 86,
                        utilities |-> 200, entertainment |-> 150],
      tax_rates |->
         Str.berlin :> [income_tax |-> Dec(42, 2), social_security |-> Dec(20, 2),
                        effective_rate |-> Dec(35, 2)]],
     [cost_of_living |-> EmptyDict,
      tax_rates |-> Str.berlin :> [income_tax |-> Dec(42, 2)]],
     [cost_of_living |->
         Str.Berlin :> [rent |-> 1200, food |-> 400, transport |-> 86,
                        utilities |-> 200, entertainment |-> 150],
      tax_rates |->
         Str.Berlin :> [income_tax |-> Dec(42, 2), social_security |-> Dec(20, 2),
                        effective_rate |-> Dec(35, 2)]]}

PurchaseFactors ==
    {o @@ b : o \in {EmptyDict} \cup {"options" :> l : l \in Lists({Str.A, Str.B})},
              b \in {EmptyDict, "budget" :> Dec(30000, 0), "budget" :> Dec(0, 0),
                     "budget" :> Dec(1, 2)}}

JobFactors ==
    {EmptyDict} \cup {"options" :> l : l \in Lists({Str.A, Str.B})}

InvestmentFactors ==
    {o @@ a : o \in {EmptyDict}
                    \cup {"options" :> l :
                            l \in Lists({Str.stocks, Str.bonds, Str.gold})
                                  \cup {PyList(<<Str.real_estate>>), PyList(<<Str.Crypto>>)}},
              a \in {EmptyDict, "amount" :> 2000, "amount" :> 0}}

\* the calls of the modelled callers: relocation with external data, the
\* other kinds without (create_simulation fetches none for them), and a
\* decision type that is no member of DecisionType
Calls ==
    {<<"relocation", f, e>> : f \in RelocationFactors, e \in ExternalData}
    \cup {<<"purchase", f, EmptyDict>> : f \in PurchaseFactors}
    \cup {<<"job", f, EmptyDict>> : f \in JobFactors}
    \cup {<<"investment", f, EmptyDict>> : f \in InvestmentFactors}
    \cup {<<"marriage", EmptyDict, EmptyDict>>}

\* calls whose factors carry a str where a list is expected
MalformedCalls ==
    {<<kind, "options" :> PyStr(Str.A \o Str.B), EmptyDict>> :
        kind \in {"purchase", "job", "investment"}}
    \cup {<<"relocation", "cities" :> PyStr(Str.A \o Str.B), EmptyDict>>}

\* the run configurations an engine is constructed with: every horizon and
\* run count within the bounds, and the horizons 3 and 5 (the default) with
\* a single run
Configs ==
    {<<h, r>> : h \in 0..MaxHorizon, r \in 0..MaxRuns} \cup {<<3, 1>>, <<DefaultHorizon, 1>>}

\* ------------------------------------------------------------------------
\* The state: one engine, the random source, the clock, and the last call to
\* run_simulation with what it returned or raised; and, for runs that go on
\* at the same time, the local variables of each run (task).  The tables
\* of the database (scenarios, simulations, cached_data) and the requests
\* and worker tasks in progress (handler) are the state of the callers.

VARIABLES engine, rng, clock, pc, call, outcome, task, scenarios, simulations, cached_data, handler

vars == <<engine, rng, clock, pc, call, outcome, task, scenarios, simulations, cached_data, handler>>

\* the state of the callers
callers == <<scenarios, simulations, cached_data, handler>>

\* the requests and worker tasks that may go on at the same time; one that
\* is not in progress is at "idle"
Handlers == {1, 2}

\* the runs that may go on at the same time; one that has not started is at
\* "idle"
Tasks == {1, 2}

NoCall == [decision_type |-> "none", structured_data |-> EmptyDict,
           external_data |-> EmptyDict, rng |-> 0]

NoOutcome ==
    [dispatched |-> "none",
     result |-> [Raise("none", Source(0), << >>) EXCEPT !.status = "none"]]

Init ==
    /\ engine \in {SimulationEngineInit(c[1], c[2]) : c \in Configs}
    /\ rng \in DOMAIN ZTape
    /\ clock = 0
    /\ pc = "idle"
    /\ call = NoCall
    /\ outcome = NoOutcome
    /\ task = [t \in Tasks |-> [pc |-> "idle"]]
    /\ scenarios = << >>
    /\ simulations = << >>
    /\ cached_data = {}
    /\ handler = [h \in Handlers |-> [pc |-> "idle"]]

\* SimulationEngine(time_horizon_years, monte_carlo_runs)
Construct(h, r) ==
    /\ pc = "idle"
    /\ engine' = SimulationEngineInit(h, r)
    /\ UNCHANGED <<rng, clock, pc, call, outcome>>

\* a faulty call that uses up one of the engine's Monte Carlo runs
RunSimulationConsuming(decision_type, structured_data, external_data) ==
    /\ pc = "idle"
    /\ \E policy \in IF engine.monte_carlo_runs < 1 THEN EmptySamplePolicies
                     ELSE {"nan"} :
         outcome' = run_simulation(engine, decision_type, structured_data,
                                   external_data, Source(rng), clock, policy)
    /\ rng' = outcome'.result.src.pos
    /\ call' = [decision_type |-> decision_type, structured_data |-> structured_data,
                external_data |-> external_data, rng |-> rng]
    /\ pc' = "done"
    /\ engine' = [engine EXCEPT !.monte_carlo_runs = IF @ > 0 THEN @ - 1 ELSE 0]
    /\ UNCHANGED clock

\* await engine.run_simulation(decision_type, structured_data, external_data)
RunSimulation(decision_type, structured_data, external_data) ==
    /\ pc = "idle"
    /\ \E policy \in IF engine.monte_carlo_runs < 1 THEN EmptySamplePolicies
                     ELSE {"nan"} :
         outcome' = run_simulation(engine, decision_type, structured_data,
                                   external_data, Source(rng), clock, policy)
    /\ rng' = outcome'.result.src.pos
    /\ call' = [decision_type |-> decision_type, structured_data |-> structured_data,
                external_data |-> external_data, rng |-> rng]
    /\ pc' = "done"
    /\ UNCHANGED <<engine, clock>>

\* the caller takes the result (or handles the error)
Consume ==
    /\ pc = "done"
    /\ pc' = "idle"
    /\ call' = NoCall
    /\ outcome' = NoOutcome
    /\ UNCHANGED <<engine, rng, clock>>

\* time passes
Tick ==
    /\ pc = "idle"
    /\ clock < MaxClock
    /\ clock' = clock + 1
    /\ UNCHANGED <<engine, rng, pc, call, outcome>>

\* one caller at a time
Next ==
    \/ \E c \in Configs : Construct(c[1], c[2]) /\ UNCHANGED <<task, callers>>
    \/ \E c \in Calls : RunSimulation(c[1], c[2], c[3]) /\ UNCHANGED <<task, callers>>
    \/ \E c \in MalformedCalls : RunSimulation(c[1], c[2], c[3]) /\ UNCHANGED <<task, callers>>
    \/ Consume /\ UNCHANGED <<task, callers>>
    \/ Tick /\ UNCHANGED <<task, callers>>

Spec == Init /\ [][Next]_vars


\* ------------------------------------------------------------------------
\* Runs that go on at the same time.  Each run has its own engine
\* configuration (self), inputs and local variables; the runs share the
\* process-wide random source only.  A run is cut into steps at its draws
\* from the source: what lies between two draws touches local variables only.

\* what a strategy has for options[i] before it samples: the yearly
\* projections, and the arguments its sampler is called with
RelocationPlan(self, yearly_cost, effective_tax, base_salary) ==
    [trajectory     |-> [year \in 1..self.time_horizon |->
                            RelocationYear(base_salary, yearly_cost, effective_tax, year)],
     sampler        |-> "savings",
     value          |-> Dec(base_salary, 0),
     cost           |-> Dec(yearly_cost, 0),
     tax_rate       |-> effective_tax,
     mu             |-> Dec(2, 2),
     sigma          |-> Dec(2, 2),
     keys           |-> {"mean", "std", "p5", "p25", "p50", "p75", "p95"},
     initial_amount |-> Dec(0, 0)]

JobPlan(self, base_salary, growth_rate) ==
    [trajectory     |-> JobYears(self, base_salary, growth_rate, Dec(0, 0), 1),
     sampler        |-> "salary",
     value          |-> Dec(base_salary, 0),
     cost           |-> Dec(0, 0),
     tax_rate       |-> Dec(0, 0),
     mu             |-> growth_rate,
     sigma          |-> Dec(3, 2),
     keys           |-> {"mean", "std", "p5", "p95"},
     initial_amount |-> Dec(0, 0)]

InvestmentPlan(self, amount, params) ==
    [trajectory     |-> InvestmentYears(self, amount, params.return, Dec(amount, 0), 1),
     sampler        |-> "investment",
     value          |-> Dec(amount, 0),
     cost           |-> Dec(0, 0),
     tax_rate       |-> Dec(0, 0),
     mu             |-> params.return,
     sigma          |-> params.volatility,
     keys           |-> {"mean", "std", "p5", "p25", "p50", "p75", "p95", "prob_loss"},
     initial_amount |-> Dec(amount, 0)]

\* the body of a strategy's loop for options[i], up to the call of the sampler
OptionPlan(self, decision_type, structured_data, external_data, options, i) ==
    CASE decision_type = "relocation" ->
           RelocationPlan(self,
               (IF DOMAIN Get(Get(external_data, "cost_of_living", EmptyDict),
                              Lower(options[i]), EmptyDict) # {}
                THEN SumValues(Get(Get(external_data, "cost_of_living", EmptyDict),
                                   Lower(options[i]), EmptyDict))
                ELSE 2000) * 12,
               Get(Get(Get(external_data, "tax_rates", EmptyDict),
                       Lower(options[i]), EmptyDict),
                   "effective_rate", Dec(30, 2)),
               Get(Get(structured_data, "user_context", EmptyDict), "salary", 80000))
      [] decision_type = "job" ->
           JobPlan(self, 70000 + (i - 1) * 15000,
                   DecAdd(Dec(5, 2), DecMul(Dec(i - 1, 0), Dec(2, 2))))
      [] decision_type = "investment" ->
           InvestmentPlan(self, Get(structured_data, "amount", 10000),
               Get(investment_params, Lower(options[i]),
                   [return |-> Dec(6, 2), volatility |-> Dec(12, 2)]))

\* the metadata a strategy returns
Metadata(self, decision_type, structured_data, now) ==
    IF decision_type = "investment"
    THEN [time_horizon_years |-> self.time_horizon,
          monte_carlo_runs   |-> self.monte_carlo_runs,
          initial_amount     |-> Get(structured_data, "amount", 10000),
          simulation_date    |-> now]
    ELSE [time_horizon_years |-> self.time_horizon,
          monte_carlo_runs   |-> self.monte_carlo_runs,
          simulation_date    |-> now]

\* the runs that go on together, each a call and the configuration of its
\* engine: a relocation with the external data create_simulation builds, over
\* 2 years and with 2 trials; a job with 2 trials of 2 years; an investment
\* in two options; and an investment of 0
ParRuns ==
    {<<<<"relocation", "cities" :> PyList(<<Str.Berlin>>), e>>, cfg>> :
        e \in {x \in ExternalData :
                  Str.berlin \in DOMAIN Get(x, "cost_of_living", EmptyDict)},
        cfg \in {<<2, 1>>, <<1, 2>>}}
    \cup {<<<<"job", "options" :> PyList(<<Str.A>>), EmptyDict>>, <<2, 2>>>>,
          <<<<"investment", "options" :> PyList(<<Str.stocks, Str.bonds>>), EmptyDict>>,
            <<1, 1>>>>,
          <<<<"investment", ("options" :> PyList(<<Str.bonds>>)) @@ ("amount" :> 0),
              EmptyDict>>, <<1, 1>>>>}

\* run_simulation is called: the strategy reads its list and starts its
\* loop.  The runs being alike, they are numbered in the order they start.
ParStart(t, c, cfg) ==
    /\ task[t].pc = "idle"
    /\ \A u \in Tasks : u < t => task[u].pc # "idle"
    /\ task' = [task EXCEPT ![t] =
          [pc |-> "loop",
           self |-> SimulationEngineInit(cfg[1], cfg[2]),
           decision_type |-> c[1], structured_data |-> c[2], external_data |-> c[3],
           start |-> rng,
           options |-> Iterate(Get(c[2], IF c[1] = "relocation" THEN "cities"
                                         ELSE "options", PyList(<< >>))),
           i |-> 1,
           acc |-> LoopStart(Source(rng)),
           plan |-> << >>,
           k |-> 0, year |-> 0,
           value |-> Dec(0, 0), cost |-> Dec(0, 0),
           cumulative_savings |-> Dec(0, 0), growth |-> Dec(0, 0),
           final |-> << >>, zs |-> << >>,
           result |-> NoOutcome.result]]
    /\ UNCHANGED <<engine, rng, clock, pc, call, outcome>>

\* the head of the strategy's loop: the list is exhausted and the strategy
\* returns, or the yearly projections of options[i] are computed (raising
\* ZeroDivisionError for an investment of 0) and the sampler is called
ParOption(t) ==
    /\ task[t].pc = "loop"
    /\ task' = [task EXCEPT ![t] =
          IF task[t].i > Len(task[t].options)
          THEN [task[t] EXCEPT
                   !.pc = "done",
                   !.result = Return(task[t].acc,
                                     Metadata(task[t].self, task[t].decision_type,
                                              task[t].structured_data, clock))]
          ELSE IF /\ task[t].decision_type = "investment"
                  /\ Get(task[t].structured_data, "amount", 10000) = 0
                  /\ task[t].self.time_horizon >= 1
          THEN [task[t] EXCEPT
                   !.pc = "done",
                   !.result = Raise("ZeroDivisionError", task[t].acc.src,
                                    task[t].acc.trials)]
          ELSE [task[t] EXCEPT
                   !.pc = "trial",
                   !.plan = OptionPlan(task[t].self, task[t].decision_type,
                                       task[t].structured_data, task[t].external_data,
                                       task[t].options, task[t].i),
                   !.k = 0, !.final = << >>, !.zs = << >>]]
    /\ UNCHANGED <<engine, rng, clock, pc, call, outcome>>

\* a faulty start of a trial that keeps the cumulative savings of the trial
\* before
ParTrialCarry(t) ==
    /\ task[t].pc = "trial"
    /\ task[t].k < task[t].self.monte_carlo_runs
    /\ task' = [task EXCEPT ![t] =
          [task[t] EXCEPT !.pc = "year", !.year = 0,
                          !.value = task[t].plan.value,
                          !.cost = task[t].plan.cost]]
    /\ UNCHANGED <<engine, rng, clock, pc, call, outcome>>

\* for _ in range(self.monte_carlo_runs): a trial starts from the arguments
\* of the sampler
ParTrial(t) ==
    /\ task[t].pc = "trial"
    /\ task[t].k < task[t].self.monte_carlo_runs
    /\ task' = [task EXCEPT ![t] =
          [task[t] EXCEPT !.pc = "year", !.year = 0,
                          !.value = task[t].plan.value,
                          !.cost = task[t].plan.cost,
                          !.cumulative_savings = Dec(0, 0)]]
    /\ UNCHANGED <<engine, rng, clock, pc, call, outcome>>

\* for year in range(self.time_horizon): the first draw of the year; the
\* salary and the investment sampler update their value with it
ParYear(t) ==
    /\ task[t].pc = "year"
    /\ task[t].year < task[t].self.time_horizon
    /\ task' = [task EXCEPT ![t] =
          IF task[t].plan.sampler = "savings"
          THEN [task[t] EXCEPT
                   !.pc = "inflation",
                   !.growth = Normal(Dec(2, 2), Dec(2, 2), Source(rng)),
                   !.zs = Append(@, ZTape[rng])]
          ELSE [task[t] EXCEPT
                   !.value = DecMul(@, DecAdd(Dec(1, 0),
                                              Normal(task[t].plan.mu, task[t].plan.sigma,
                                                     Source(rng)))),
                   !.year = @ + 1,
                   !.zs = Append(@, ZTape[rng])]]
    /\ rng' = Advance(Source(rng), 1).pos
    /\ UNCHANGED <<engine, clock, pc, call, outcome>>

\* the savings sampler, lines 264-270: the second draw of the year and the
\* update of salary, cost and cumulative savings
ParInflation(t) ==
    /\ task[t].pc = "inflation"
    /\ task' = [task EXCEPT ![t] =
          [task[t] EXCEPT
              !.pc = "year",
              !.value = DecMul(@, DecAdd(Dec(1, 0), task[t].growth)),
              !.cost = DecMul(@, DecAdd(Dec(1, 0),
                                        Normal(Dec(3, 2), Dec(1, 2), Source(rng)))),
              !.cumulative_savings =
                  DecAdd(@, DecSub(
                      DecMul(DecMul(task[t].value, DecAdd(Dec(1, 0), task[t].growth)),
                             DecSub(Dec(1, 0), task[t].plan.tax_rate)),
                      DecMul(task[t].cost,
                             DecAdd(Dec(1, 0),
                                    Normal(Dec(3, 2), Dec(1, 2), Source(rng)))))),
              !.year = @ + 1,
              !.zs = Append(@, ZTape[rng])]]
    /\ rng' = Advance(Source(rng), 1).pos
    /\ UNCHANGED <<engine, clock, pc, call, outcome>>

\* a faulty append to a list of terminal values that the runs share: the
\* value also lands in the list of every other run that is sampling
ParAppendShared(t) ==
    /\ task[t].pc = "year"
    /\ task[t].year >= task[t].self.time_horizon
    /\ task' = [u \in Tasks |->
          IF u = t
          THEN [task[t] EXCEPT
                   !.pc = "trial",
                   !.k = @ + 1,
                   !.final = Append(@, IF task[t].plan.sampler = "savings"
                                       THEN task[t].cumulative_savings
                                       ELSE task[t].value)]
          ELSE IF task[u].pc \in {"trial", "year", "inflation"}
          THEN [task[u] EXCEPT
                   !.final = Append(@, IF task[t].plan.sampler = "savings"
                                       THEN task[t].cumulative_savings
                                       ELSE task[t].value)]
          ELSE task[u]]
    /\ UNCHANGED <<engine, rng, clock, pc, call, outcome>>

\* the years of the trial are over: its terminal value is appended
ParAppend(t) ==
    /\ task[t].pc = "year"
    /\ task[t].year >= task[t].self.time_horizon
    /\ task' = [task EXCEPT ![t] =
          [task[t] EXCEPT
              !.pc = "trial",
              !.k = @ + 1,
              !.final = Append(@, IF task[t].plan.sampler = "savings"
                                  THEN task[t].cumulative_savings
                                  ELSE task[t].value)]]
    /\ UNCHANGED <<engine, rng, clock, pc, call, outcome>>

\* the trials are over: the sampler reduces its terminal values and returns,
\* and the strategy stores the projections and the summary of options[i]
ParReduce(t) ==
    /\ task[t].pc = "trial"
    /\ task[t].k >= task[t].self.monte_carlo_runs
    /\ task' = [task EXCEPT ![t] =
          [task[t] EXCEPT
              !.pc = "loop",
              !.i = @ + 1,
              !.acc = LoopStep(@, task[t].options[task[t].i], task[t].plan.trajectory,
                               SamplerReturn(task[t].final, task[t].plan.keys,
                                             task[t].plan.initial_amount,
                                             [pos |-> rng,
                                              drawn |-> task[t].acc.src.drawn
                                                        + Len(task[t].zs)],
                                             "nan"))]]
    /\ UNCHANGED <<engine, rng, clock, pc, call, outcome>>

\* no run has started; the source is at the start of its tape
ParInit ==
    /\ engine = SimulationEngineInit(DefaultHorizon, 1)
    /\ rng = 1
    /\ clock = 0
    /\ pc = "idle"
    /\ call = NoCall
    /\ outcome = NoOutcome
    /\ task = [t \in Tasks |-> [pc |-> "idle"]]
    /\ scenarios = << >>
    /\ simulations = << >>
    /\ cached_data = {}
    /\ handler = [h \in Handlers |-> [pc |-> "idle"]]

ParNext ==
    \/ \E t \in Tasks, r \in ParRuns : ParStart(t, r[1], r[2]) /\ UNCHANGED callers
    \/ \E t \in Tasks : ParOption(t) /\ UNCHANGED callers
    \/ \E t \in Tasks : ParTrial(t) /\ UNCHANGED callers
    \/ \E t \in Tasks : ParYear(t) /\ UNCHANGED callers
    \/ \E t \in Tasks : ParInflation(t) /\ UNCHANGED callers
    \/ \E t \in Tasks : ParAppend(t) /\ UNCHANGED callers
    \/ \E t \in Tasks : ParReduce(t) /\ UNCHANGED callers

SpecPar == ParInit /\ [][ParNext]_vars

\* ------------------------------------------------------------------------
\* The callers of the engine: the endpoints of the HTTP API and the tasks of
\* the worker, over the tables of the database.

\* an Optional[int] and a nullable text or datetime column
NoneInt == [none |-> TRUE, int |-> 0]

SomeInt(n) == [none |-> FALSE, int |-> n]

NoneText == [none |-> TRUE, text |-> ""]

SomeText(s) == [none |-> FALSE, text |-> s]

\* a field of a request: left out, sent as null, or sent with a value
Unset == [given |-> FALSE, none |-> FALSE, val |-> 0]

SentNull == [given |-> TRUE, none |-> TRUE, val |-> 0]

Sent(v) == [given |-> TRUE, none |-> FALSE, val |-> v]

\* the constraints of the fields of SimulationInput and QuickSimParams
Field ==
    [query              |-> [min_length |-> 3],
     time_horizon_years |-> [default |-> 5, ge |-> 1, le |-> 30],
     monte_carlo_runs   |-> [default |-> 1000, ge |-> 100, le |-> 10000],
     quick_horizon      |-> [default |-> 5, ge |-> 1, le |-> 20]]

\* a faulty check that accepts a str of any length
StrErrorsNone(loc, s, f) == {}

\* the validation errors of a str field with a least length
StrErrors(loc, s, f) ==
    IF Len(s) < f.min_length THEN {[loc |-> loc, type |-> "string_too_short"]} ELSE {}

\* the validation errors of an int field with bounds; null is an error
\* unless the field is Optional
IntErrors(loc, sent, f, optional) ==
    IF ~sent.given THEN {}
    ELSE IF sent.none
    THEN (IF optional THEN {} ELSE {[loc |-> loc, type |-> "int_type"]})
    ELSE IF sent.val < f.ge THEN {[loc |-> loc, type |-> "greater_than_equal"]}
    ELSE IF sent.val > f.le THEN {[loc |-> loc, type |-> "less_than_equal"]}
    ELSE {}

\* the validated value of an int field: the default when it was left out
IntValue(sent, f) ==
    IF ~sent.given THEN SomeInt(f.default)
    ELSE IF sent.none THEN NoneInt
    ELSE SomeInt(sent.val)

\* SimulationInput(query=..., time_horizon_years=..., monte_carlo_runs=...):
\* the validation errors, and the validated model when there are none (what
\* model_dump() stores as input_data)
SimulationInput(raw) ==
    [errors |->
         StrErrors("query", raw.query, Field.query)
         \cup IntErrors("time_horizon_years", raw.time_horizon_years,
                        Field.time_horizon_years, FALSE)
         \cup IntErrors("monte_carlo_runs", raw.monte_carlo_runs,
                        Field.monte_carlo_runs, TRUE),
     value |-> [query |-> raw.query,
                time_horizon_years |->
                    IntValue(raw.time_horizon_years, Field.time_horizon_years).int,
                monte_carlo_runs |->
                    IntValue(raw.monte_carlo_runs, Field.monte_carlo_runs)]]

\* QuickSimParams, filled by FastAPI from the query string of the request
QuickSimParams(raw) ==
    [errors |->
         StrErrors("query", raw.query, Field.query)
         \cup (IF raw.decision_type \in {"relocation", "purchase", "job", "investment"}
               THEN {} ELSE {[loc |-> "decision_type", type |-> "enum"]})
         \cup IntErrors("time_horizon_years", raw.time_horizon_years,
                        Field.quick_horizon, FALSE),
     value |-> [query |-> raw.query,
                decision_type |-> raw.decision_type,
                time_horizon_years |->
                    IntValue(raw.time_horizon_years, Field.quick_horizon).int]]

\* the values of SimulationStatus
SimulationStatus ==
    [PENDING |-> "pending", RUNNING |-> "running",
     COMPLETED |-> "completed", FAILED |-> "failed"]

\* Simulation(scenario_id=..., input_data=..., status=PENDING): the columns
\* without a value are null
Simulation(scenario_id, input_data) ==
    [scenario_id |-> scenario_id, input_data |-> input_data,
     status |-> SimulationStatus.PENDING, result_json |-> Null,
     error_message |-> NoneText, completed_at |-> NoneInt]

\* an exception: its class and what str(e) gives
Exc(type, message) == [type |-> type, message |-> message]

NoExc == Exc("none", "")

\* str(e) of the errors the engine raises
EngineMessage ==
    [ZeroDivisionError |-> "float division by zero",
     IndexError |-> "index -1 is out of bounds for axis 0 with size 0",
     ValueError |-> "is not a valid DecisionType"]

\* the response of an endpoint, or what a task of the worker returns
Response(status_code, success, message, detail, data) ==
    [status_code |-> status_code, success |-> success, message |-> message,
     detail |-> detail, errors |-> {}, data |-> data]

\* settings.CACHE_TTL_SECONDS, in ticks of the clock
CACHE_TTL == 1

\* the last tick of the clock of the callers
MaxNow == 2

\* the rows the simulations table may hold
MaxSimulations == 2

\* the rows the scenarios table may hold
MaxScenarios == 2

\* f"col_{city.lower()}" and f"tax_{city.lower()}"
CacheKey(prefix, city) == prefix \o <<"_">> \o Lower(city)

\* DataService._mock_cost_of_living(city)
_mock_cost_of_living(city) ==
    Get(Str.berlin :> [rent |-> 1200, food |-> 400, transport |-> 86,
                       utilities |-> 200, entertainment |-> 150],
        Lower(city),
        [rent |-> 1000, food |-> 350, transport |-> 80,
         utilities |-> 150, entertainment |-> 100])

\* DataService._mock_tax_rates(city)
_mock_tax_rates(city) ==
    Get(Str.berlin :> [income_tax |-> Dec(42, 2), social_security |-> Dec(20, 2),
                       effective_rate |-> Dec(35, 2)],
        Lower(city),
        [income_tax |-> Dec(30, 2), social_security |-> Dec(15, 2),
         effective_rate |-> Dec(30, 2)])

\* the two fetches the callers make for a city, in this order
Fetches ==
    <<[prefix |-> <<"c", "o", "l">>, into |-> "cost_of_living", source |-> "numbeo"],
      [prefix |-> <<"t", "a", "x">>, into |-> "tax_rates", source |-> "internal"] >>

\* the data a fetch falls back to when the cache has no entry
MockData(f, city) ==
    IF Fetches[f].into = "cost_of_living" THEN _mock_cost_of_living(city)
    ELSE _mock_tax_rates(city)

\* DataService._get_cached: the rows the select returns, those with the key
\* that have not expired
_get_cached(rows, cache_key, now) ==
    {r \in rows : r.cache_key = cache_key /\ r.expires_at > now}

\* CachedData(cache_key=..., data=..., source=..., expires_at=now + TTL)
CachedData(cache_key, data, source, now) ==
    [cache_key |-> cache_key, data |-> data, source |-> source,
     expires_at |-> now + CACHE_TTL]

\* what LLMService.structure_query returns or raises for a decision type:
\* the answer of the mock with one city, an answer of the LLM with no amount
\* to invest, and a failure of the call to the LLM
StructureOutcomes(decision_type) ==
    IF decision_type = "relocation"
    THEN {[error |-> NoExc,
           data |-> ("cities" :> PyList(<<Str.Berlin>>))
                    @@ ("user_context" :> [profession |-> "engineer"])],
          [error |-> Exc("LLMProcessingError", "LLM API call failed"),
           data |-> EmptyDict]}
    ELSE {[error |-> NoExc,
           data |-> ("options" :> PyList(<<Str.stocks, Str.bonds>>))
                    @@ ("amount" :> 10000)],
          [error |-> NoExc,
           data |-> ("options" :> PyList(<<Str.bonds>>)) @@ ("amount" :> 0)]}

\* what engine.run_simulation raises, if anything.  Whether a run raises is
\* decided by its data (a division by an amount of 0) and not by its horizon
\* or its number of runs when both are at least 1, so the run is evaluated at
\* a horizon of one year and a single run.
RunError(decision_type, structured_data, external_data) ==
    run_simulation(SimulationEngineInit(1, 1), decision_type, structured_data,
                   external_data, Source(1), 0, NaN).result.error

\* the results a caller stores: the structured input and, of the output of
\* the engine, the run configuration in its metadata
FinalResults(self, decision_type, structured_data, now) ==
    [structured_input |-> structured_data,
     simulation_results |->
         [metadata |-> [time_horizon_years |-> self.time_horizon,
                        monte_carlo_runs   |-> self.monte_carlo_runs]]]

\* monte_carlo_runs or 1000
Or1000(runs) == IF runs.none \/ runs.int = 0 THEN 1000 ELSE runs.int

\* ------------------------------------------------------------------------
\* A request or a task in progress: where it is (pc), the row it works on,
\* the status its session holds for the row, and its local variables.

Handler(op) ==
    [pc |-> "idle", op |-> op, via |-> op, simulation |-> << >>, simulation_id |-> 0,
     status |-> "none", decision_type |-> "none", input_data |-> << >>,
     structured_data |-> EmptyDict, external_data |-> EmptyDict,
     cities |-> << >>, i |-> 1, f |-> 1,
     engine |-> [constructed |-> FALSE, self |-> SimulationEngineInit(0, 0)],
     final_results |-> << >>,
     error |-> NoExc, response |-> Response(0, FALSE, "", "", << >>)]

\* no request or task is in progress in the slot; the slots being alike, a
\* request takes the first free one
Free(h) ==
    /\ handler[h].pc \in {"idle", "ended"}
    /\ \A g \in Handlers : g < h => handler[g].pc \notin {"idle", "ended"}

\* the request or task ends with the response; its local variables are gone
Ended(hd, response) ==
    [Handler(hd.op) EXCEPT !.pc = "ended", !.via = hd.via,
                           !.simulation_id = hd.simulation_id, !.response = response]

\* of the rows a response carries, the id and the status
Rows(table, ids) == [i \in DOMAIN ids |-> [id |-> ids[i], status |-> table[ids[i]].status]]

\* the ids of the simulations of a scenario
RECURSIVE OfScenario(_, _)
OfScenario(scenario_id, n) ==
    IF n = 0 THEN << >>
    ELSE IF simulations[n].scenario_id = scenario_id
    THEN Append(OfScenario(scenario_id, n - 1), n)
    ELSE OfScenario(scenario_id, n - 1)

\* create_simulation, lines 118-135: the scenario is selected, and the
\* Simulation row is inserted as PENDING
create_simulation(h, hd, simulation) ==
    IF simulation.scenario_id \notin DOMAIN scenarios
    THEN /\ handler' = [handler EXCEPT ![h] =
                Ended(hd, Response(404, FALSE, "Scenario not found", "", << >>))]
         /\ UNCHANGED <<scenarios, simulations, cached_data>>
    ELSE /\ Len(simulations) < MaxSimulations
         /\ simulations' = Append(simulations,
                Simulation(simulation.scenario_id, simulation.input_data))
         /\ handler' = [handler EXCEPT ![h] =
                [hd EXCEPT !.pc = "pending",
                           !.simulation_id = Len(simulations) + 1,
                           !.status = SimulationStatus.PENDING,
                           !.decision_type =
                               scenarios[simulation.scenario_id].decision_type,
                           !.input_data = simulation.input_data]]
         /\ UNCHANGED <<scenarios, cached_data>>

\* POST /simulations: FastAPI validates the body and answers 422 without
\* calling the handler if it is invalid; else it calls create_simulation
CreateSimulation(h, body) ==
    /\ Free(h)
    /\ IF SimulationInput(body.input_data).errors # {}
       THEN /\ handler' = [handler EXCEPT ![h] =
                   Ended(Handler("create_simulation"),
                         [Response(422, FALSE, "Validation error", "", << >>)
                             EXCEPT !.errors = SimulationInput(body.input_data).errors])]
            /\ UNCHANGED <<scenarios, simulations, cached_data>>
       ELSE create_simulation(h, Handler("create_simulation"),
                [scenario_id |-> body.scenario_id,
                 input_data |-> SimulationInput(body.input_data).value])
    /\ UNCHANGED <<engine, rng, clock, pc, call, outcome, task>>

\* POST /simulate: FastAPI validates the parameters; quick_simulation inserts
\* a Scenario and builds the SimulationCreate it passes to create_simulation
QuickSimulation(h, raw) ==
    /\ Free(h)
    /\ IF QuickSimParams(raw).errors # {}
       THEN /\ handler' = [handler EXCEPT ![h] =
                   Ended(Handler("quick_simulation"),
                         [Response(422, FALSE, "Validation error", "", << >>)
                             EXCEPT !.errors = QuickSimParams(raw).errors])]
            /\ UNCHANGED scenarios
       ELSE /\ Len(scenarios) < MaxScenarios
            /\ scenarios' = Append(scenarios,
                   [decision_type |-> QuickSimParams(raw).value.decision_type])
            /\ handler' = [handler EXCEPT ![h] =
                   [Handler("create_simulation") EXCEPT
                       !.pc = "delegate", !.via = "quick_simulation",
                       !.simulation =
                           [scenario_id |-> Len(scenarios) + 1,
                            input_data |->
                                SimulationInput(
                                    [query |-> QuickSimParams(raw).value.query,
                                     time_horizon_years |->
                                         Sent(QuickSimParams(raw).value.time_horizon_years),
                                     monte_carlo_runs |-> Unset])]]]
    /\ UNCHANGED <<simulations, cached_data>>
    /\ UNCHANGED <<engine, rng, clock, pc, call, outcome, task>>

\* quick_simulation, line 285: return await create_simulation(...)
Delegate(h) ==
    /\ handler[h].pc = "delegate"
    /\ IF handler[h].simulation.input_data.errors # {}
       THEN /\ handler' = [handler EXCEPT ![h] =
                   Ended(handler[h],
                         Response(500, FALSE, "Internal server error",
                                  "ValidationError", << >>))]
            /\ UNCHANGED <<scenarios, simulations, cached_data>>
       ELSE create_simulation(h, handler[h],
                [scenario_id |-> handler[h].simulation.scenario_id,
                 input_data |-> handler[h].simulation.input_data.value])
    /\ UNCHANGED <<engine, rng, clock, pc, call, outcome, task>>

\* run_heavy_simulation, lines 41-56: the task selects the Simulation and its
\* Scenario
RunHeavySimulation(h, simulation_id, input_data) ==
    /\ Free(h)
    /\ handler' = [handler EXCEPT ![h] =
          IF simulation_id \notin DOMAIN simulations
          THEN Ended(Handler("run_heavy_simulation"),
                     Response(0, FALSE, "", "Simulation not found", << >>))
          ELSE [Handler("run_heavy_simulation") EXCEPT
                   !.pc = "loaded",
                   !.simulation_id = simulation_id,
                   !.status = simulations[simulation_id].status,
                   !.decision_type =
                       scenarios[simulations[simulation_id].scenario_id].decision_type,
                   !.input_data = input_data]]
    /\ UNCHANGED <<scenarios, simulations, cached_data>>
    /\ UNCHANGED <<engine, rng, clock, pc, call, outcome, task>>

\* session.commit() after attributes of the row were set: the UPDATE writes
\* the columns whose value differs from the one the session holds
Commit(row, held_status, status) ==
    IF status = held_status THEN row ELSE [row EXCEPT !.status = status]

\* the handler goes to its except clause with the exception
Raised(hd, e) == [hd EXCEPT !.pc = "except", !.error = e]

\* lines 149-157 of create_simulation (73-80 of the task): the mappings of
\* the external data are created for a relocation, and the loop over the
\* cities starts
AfterStructuring(hd, structured_data) ==
    IF hd.decision_type = "relocation"
    THEN [hd EXCEPT
             !.structured_data = structured_data,
             !.external_data = [cost_of_living |-> EmptyDict, tax_rates |-> EmptyDict],
             !.cities = Iterate(Get(structured_data, "cities", PyList(<< >>))),
             !.i = 1, !.f = 1,
             !.pc = IF Iterate(Get(structured_data, "cities", PyList(<< >>))) = << >>
                    THEN "engine" ELSE "get"]
    ELSE [hd EXCEPT !.structured_data = structured_data, !.pc = "engine"]

\* the start of the try block: status = RUNNING is committed, and the LLM
\* structures the query (lines 139-147 of create_simulation, 59-69 of the
\* task)
MarkRunning(h) ==
    /\ handler[h].pc \in {"pending", "loaded"}
    /\ simulations' = [simulations EXCEPT ![handler[h].simulation_id] =
          Commit(@, handler[h].status, SimulationStatus.RUNNING)]
    /\ \E o \in StructureOutcomes(handler[h].decision_type) :
          handler' = [handler EXCEPT ![h] =
              IF o.error # NoExc
              THEN Raised([@ EXCEPT !.status = SimulationStatus.RUNNING], o.error)
              ELSE AfterStructuring([@ EXCEPT !.status = SimulationStatus.RUNNING],
                                    o.data)]
    /\ UNCHANGED <<scenarios, cached_data>>
    /\ UNCHANGED <<engine, rng, clock, pc, call, outcome, task>>

\* the city and the cache key of the fetch the handler is at
City(hd) == hd.cities[hd.i]

Key(hd) == CacheKey(Fetches[hd.f].prefix, City(hd))

\* external_data[...][city.lower()] = data, and the loop goes on: to the tax
\* rates of the city, to the next city, or to the engine
Fetched(hd, data) ==
    [hd EXCEPT
        !.external_data =
            [@ EXCEPT ![Fetches[hd.f].into] = (Lower(City(hd)) :> data) @@ @],
        !.f = IF hd.f = 1 THEN 2 ELSE 1,
        !.i = IF hd.f = 1 THEN hd.i ELSE hd.i + 1,
        !.pc = IF hd.f = 2 /\ hd.i = Len(hd.cities) THEN "engine" ELSE "get"]

\* get_cost_of_living / get_tax_rates up to the lookup: _get_cached selects
\* the unexpired row of the key; data found is returned, else the mock data
\* are to be stored
GetCached(h) ==
    /\ handler[h].pc = "get"
    /\ handler' = [handler EXCEPT ![h] =
          IF _get_cached(cached_data, Key(@), clock) = {}
          THEN [@ EXCEPT !.pc = "set"]
          ELSE IF Cardinality(_get_cached(cached_data, Key(@), clock)) > 1
          THEN Raised(@, Exc("MultipleResultsFound",
                             "Multiple rows were found when one or none was required"))
          ELSE Fetched(@, (CHOOSE r \in _get_cached(cached_data, Key(@), clock) : TRUE).data)]
    /\ UNCHANGED <<scenarios, simulations, cached_data>>
    /\ UNCHANGED <<engine, rng, clock, pc, call, outcome, task>>

\* _set_cached: a CachedData row is added and committed.  The commit fails
\* with IntegrityError when a row of the key exists, expired or not (the
\* index on cached_data.cache_key is unique); the
\* session is rolled back and the exception propagates to the caller.
SetCached(h) ==
    /\ handler[h].pc = "set"
    /\ IF \A r \in cached_data : r.cache_key # Key(handler[h])
       THEN /\ cached_data' =
                  cached_data
                  \cup {CachedData(Key(handler[h]),
                                   MockData(handler[h].f, City(handler[h])),
                                   Fetches[handler[h].f].source, clock)}
            /\ handler' = [handler EXCEPT ![h] = Fetched(@, MockData(@.f, City(@)))]
       ELSE /\ handler' = [handler EXCEPT ![h] =
                  Raised(@, Exc("IntegrityError",
                                "UNIQUE constraint failed: cached_data.cache_key"))]
            /\ UNCHANGED cached_data
    /\ UNCHANGED <<scenarios, simulations>>
    /\ UNCHANGED <<engine, rng, clock, pc, call, outcome, task>>

\* what LLMService.generate_report raises, if anything

\* a faulty construction that passes monte_carlo_runs on as it was sent, 0
\* for null
EngineOfAsSent(hd) ==
    IF hd.op = "create_simulation"
    THEN SimulationEngineInit(hd.input_data.time_horizon_years,
                              hd.input_data.monte_carlo_runs.int)
    ELSE SimulationEngineInit(Get(hd.input_data, "time_horizon_years", 5),
                              Get(hd.input_data, "monte_carlo_runs", 1000))

\* the engine a caller constructs: create_simulation from the validated
\* input (monte_carlo_runs or 1000), the task from the dict it was passed
\* (input_data.get(..., 5), input_data.get(..., 1000))
EngineOf(hd) ==
    IF hd.op = "create_simulation"
    THEN SimulationEngineInit(hd.input_data.time_horizon_years,
                              Or1000(hd.input_data.monte_carlo_runs))
    ELSE SimulationEngineInit(Get(hd.input_data, "time_horizon_years", 5),
                              Get(hd.input_data, "monte_carlo_runs", 1000))

\* the engine is constructed and run, and the report is generated: the
\* handler holds the final results, or an exception of the engine or of the
\* LLM
Engine(h, hd, error) ==
    \E report \in {NoExc, Exc("LLMProcessingError", "Failed to parse report")} :
        handler' = [handler EXCEPT ![h] =
            IF error # "none"
            THEN Raised([hd EXCEPT !.engine = [constructed |-> TRUE, self |-> EngineOf(hd)]],
                        Exc(error, EngineMessage[error]))
            ELSE IF report # NoExc
            THEN Raised([hd EXCEPT !.engine = [constructed |-> TRUE, self |-> EngineOf(hd)]],
                        report)
            ELSE [hd EXCEPT !.engine = [constructed |-> TRUE, self |-> EngineOf(hd)],
                            !.pc = "store",
                            !.final_results =
                                FinalResults(EngineOf(hd), hd.decision_type,
                                             hd.structured_data, clock)]]

\* lines 162-186 of create_simulation, 86-108 of the task
RunEngine(h) ==
    /\ handler[h].pc = "engine"
    /\ Engine(h, handler[h],
              RunError(handler[h].decision_type, handler[h].structured_data,
                       handler[h].external_data))
    /\ UNCHANGED <<scenarios, simulations, cached_data>>
    /\ UNCHANGED <<engine, rng, clock, pc, call, outcome, task>>

\* what the caller reports at the end: create_simulation an APIResponse or a
\* SimulationError (status 500), the task a dict
Success(hd, table) ==
    IF hd.op = "create_simulation"
    THEN Response(200, TRUE, "Simulation completed successfully", "",
                  Rows(table, <<hd.simulation_id>>))
    ELSE Response(0, TRUE, "", "", << >>)

Failure(hd) ==
    IF hd.op = "create_simulation"
    THEN Response(500, FALSE, "Simulation failed", hd.error.message, << >>)
    ELSE Response(0, FALSE, "", hd.error.message, << >>)

\* a faulty end of the try block that leaves completed_at null
CompleteUndated(h) ==
    /\ handler[h].pc = "store"
    /\ simulations' = [simulations EXCEPT ![handler[h].simulation_id] =
          [@ EXCEPT !.result_json = Some(handler[h].final_results),
                    !.status = SimulationStatus.COMPLETED]]
    /\ handler' = [handler EXCEPT ![h] =
          Ended([@ EXCEPT !.status = SimulationStatus.COMPLETED],
                Success(@, simulations'))]
    /\ UNCHANGED <<scenarios, cached_data>>
    /\ UNCHANGED <<engine, rng, clock, pc, call, outcome, task>>

\* the end of the try block: result_json, status = COMPLETED and
\* completed_at are committed, and the caller reports success (lines 188-198
\* of create_simulation, 110-115 of the task)
Complete(h) ==
    /\ handler[h].pc = "store"
    /\ simulations' = [simulations EXCEPT ![handler[h].simulation_id] =
          [@ EXCEPT !.result_json = Some(handler[h].final_results),
                    !.status = SimulationStatus.COMPLETED,
                    !.completed_at = SomeInt(clock)]]
    /\ handler' = [handler EXCEPT ![h] =
          Ended([@ EXCEPT !.status = SimulationStatus.COMPLETED],
                Success(@, simulations'))]
    /\ UNCHANGED <<scenarios, cached_data>>
    /\ UNCHANGED <<engine, rng, clock, pc, call, outcome, task>>

\* a faulty except clause that records the failure without its message
FailSilent(h) ==
    /\ handler[h].pc = "except"
    /\ simulations' = [simulations EXCEPT ![handler[h].simulation_id] =
          [@ EXCEPT !.status = SimulationStatus.FAILED]]
    /\ handler' = [handler EXCEPT ![h] =
          Ended([@ EXCEPT !.status = SimulationStatus.FAILED], Failure(@))]
    /\ UNCHANGED <<scenarios, cached_data>>
    /\ UNCHANGED <<engine, rng, clock, pc, call, outcome, task>>

\* the except clause: status = FAILED and error_message = str(e) are
\* committed, and the caller reports the failure (lines 200-207 of
\* create_simulation, 117-121 of the task)
Fail(h) ==
    /\ handler[h].pc = "except"
    /\ simulations' = [simulations EXCEPT ![handler[h].simulation_id] =
          [@ EXCEPT !.status = SimulationStatus.FAILED,
                    !.error_message = SomeText(handler[h].error.message)]]
    /\ handler' = [handler EXCEPT ![h] =
          Ended([@ EXCEPT !.status = SimulationStatus.FAILED], Failure(@))]
    /\ UNCHANGED <<scenarios, cached_data>>
    /\ UNCHANGED <<engine, rng, clock, pc, call, outcome, task>>

\* GET /simulations/{simulation_id}
GetSimulation(h, simulation_id) ==
    /\ Free(h)
    /\ handler' = [handler EXCEPT ![h] =
          IF simulation_id \notin DOMAIN simulations
          THEN Ended(Handler("get_simulation"),
                     Response(404, FALSE, "Simulation not found", "", << >>))
          ELSE Ended(Handler("get_simulation"),
                     Response(200, TRUE, "Simulation found", "",
                              Rows(simulations, <<simulation_id>>)))]
    /\ UNCHANGED <<scenarios, simulations, cached_data>>
    /\ UNCHANGED <<engine, rng, clock, pc, call, outcome, task>>

\* GET /scenarios/{scenario_id}/simulations
ListScenarioSimulations(h, scenario_id) ==
    /\ Free(h)
    /\ handler' = [handler EXCEPT ![h] =
          Ended(Handler("list_scenario_simulations"),
                Response(200, TRUE, "Found simulations", "",
                         Rows(simulations, OfScenario(scenario_id, Len(simulations)))))]
    /\ UNCHANGED <<scenarios, simulations, cached_data>>
    /\ UNCHANGED <<engine, rng, clock, pc, call, outcome, task>>

\* cleanup_old_cache: the rows whose expires_at is before now are deleted
CleanupOldCache ==
    /\ cached_data' = {r \in cached_data : ~(r.expires_at < clock)}
    /\ UNCHANGED <<scenarios, simulations, handler>>
    /\ UNCHANGED <<engine, rng, clock, pc, call, outcome, task>>

\* time passes for the callers
Elapse ==
    /\ clock < MaxNow
    /\ clock' = clock + 1
    /\ UNCHANGED <<scenarios, simulations, cached_data, handler>>
    /\ UNCHANGED <<engine, rng, pc, call, outcome, task>>

\* ------------------------------------------------------------------------
\* The requests the clients are modelled to send.

Query == [ab |-> <<"a", "b">>, one |-> <<"1">>, move |-> <<"M", "o", "v", "e">>]

\* bodies of POST /simulations: the fields left out, at their least and
\* greatest values and just outside them, null, a query of two characters,
\* and a scenario that does not exist
SimulationBodies ==
    {[scenario_id |-> 1,
      input_data |-> [query |-> Query.move, time_horizon_years |-> x[1],
                      monte_carlo_runs |-> x[2]]] :
        x \in {<<Unset, Unset>>, <<Sent(1), Sent(100)>>, <<Sent(30), Sent(10000)>>,
               <<Sent(5), SentNull>>, <<Sent(0), Unset>>, <<Sent(31), Unset>>,
               <<SentNull, Unset>>, <<Unset, Sent(99)>>, <<Unset, Sent(10001)>>,
               <<Unset, Sent(0)>>}}
    \cup {[scenario_id |-> 1,
           input_data |-> [query |-> Query.ab, time_horizon_years |-> Sent(5),
                           monte_carlo_runs |-> Unset]],
          [scenario_id |-> MaxScenarios + 1,
           input_data |-> [query |-> Query.move, time_horizon_years |-> Unset,
                           monte_carlo_runs |-> Unset]]}

\* parameters of POST /simulate
QuickParams ==
    {[query |-> Query.move, decision_type |-> x[1], time_horizon_years |-> x[2]] :
        x \in {<<"relocation", Unset>>, <<"investment", Sent(1)>>,
               <<"investment", Sent(20)>>, <<"relocation", Sent(21)>>,
               <<"relocation", Sent(0)>>, <<"marriage", Unset>>}}
    \cup {[query |-> Query.one, decision_type |-> "purchase",
           time_horizon_years |-> Sent(5)],
          [query |-> Query.ab, decision_type |-> "relocation",
           time_horizon_years |-> Unset]}

\* the callers start with a relocation scenario created earlier, empty
\* simulations and cache tables, and no request in progress
ApiInit ==
    /\ engine = SimulationEngineInit(DefaultHorizon, 1)
    /\ rng = 1
    /\ clock = 0
    /\ pc = "idle"
    /\ call = NoCall
    /\ outcome = NoOutcome
    /\ task = [t \in Tasks |-> [pc |-> "idle"]]
    /\ scenarios = <<[decision_type |-> "relocation"]>>
    /\ simulations = << >>
    /\ cached_data = {}
    /\ handler = [h \in Handlers |-> [pc |-> "idle"]]

\* the requests and tasks go on side by side: those of the slots b.slots,
\* with bodies, parameters and task inputs drawn from the sets of b, while
\* the simulations table has fewer than b.rows rows and up to the tick b.last
Serve(b) ==
    \/ \E h \in b.slots, body \in b.bodies :
          Len(simulations) < b.rows /\ CreateSimulation(h, body)
    \/ \E h \in b.slots, raw \in b.params :
          Len(simulations) < b.rows /\ QuickSimulation(h, raw)
    \/ \E h \in b.slots : Delegate(h)
    \/ \E h \in b.slots, id \in 1..MaxSimulations, d \in b.inputs :
          RunHeavySimulation(h, id, d)
    \/ \E h \in b.slots : MarkRunning(h)
    \/ \E h \in b.slots : GetCached(h)
    \/ \E h \in b.slots : SetCached(h)
    \/ \E h \in b.slots : RunEngine(h)
    \/ \E h \in b.slots : Complete(h)
    \/ \E h \in b.slots : Fail(h)
    \/ \E h \in b.slots, id \in 1..MaxSimulations : GetSimulation(h, id)
    \/ \E h \in b.slots, id \in 1..MaxScenarios : ListScenarioSimulations(h, id)
    \/ CleanupOldCache
    \/ clock < b.last /\ Elapse

\* one request or task at a time, with every body and all parameters, on a
\* simulations table of one row
ApiNext ==
    Serve([slots |-> {1}, bodies |-> SimulationBodies, params |-> QuickParams,
           inputs |-> {"query" :> Query.move,
                       ("query" :> Query.move) @@ ("time_horizon_years" :> 10)
                           @@ ("monte_carlo_runs" :> 5000)},
           rows |-> 1, last |-> MaxNow])

SpecApi == ApiInit /\ [][ApiNext]_vars

\* two POST /simulations requests at a time for the relocation scenario,
\* with a body that passes validation, one that does not, and one that names
\* no scenario
PairNext ==
    \/ \E h \in Handlers :
          \E body \in {b \in SimulationBodies :
                 /\ b.input_data.time_horizon_years = Unset
                 /\ b.input_data.monte_carlo_runs \in {Unset, Sent(99)}} :
              CreateSimulation(h, body)
    \/ \E h \in Handlers : MarkRunning(h)
    \/ \E h \in Handlers : GetCached(h)
    \/ \E h \in Handlers : SetCached(h)
    \/ \E h \in Handlers : RunEngine(h)
    \/ \E h \in Handlers : Complete(h)
    \/ \E h \in Handlers : Fail(h)
    \/ CleanupOldCache
    \/ Elapse

SpecPair == ApiInit /\ [][PairNext]_vars

\* a POST /simulations request and run_heavy_simulation tasks at a time, on a
\* simulations table of one row
TaskNext ==
    \/ \E h \in Handlers :
          \E body \in {b \in SimulationBodies :
                 /\ b.input_data.time_horizon_years = Unset
                 /\ b.input_data.monte_carlo_runs \in {Unset, Sent(99)}} :
              Len(simulations) < 1 /\ CreateSimulation(h, body)
    \/ \E h \in Handlers, id \in 1..MaxSimulations :
          RunHeavySimulation(h, id, "query" :> Query.move)
    \/ \E h \in Handlers : MarkRunning(h)
    \/ \E h \in Handlers : GetCached(h)
    \/ \E h \in Handlers : SetCached(h)
    \/ \E h \in Handlers : RunEngine(h)
    \/ \E h \in Handlers : Complete(h)
    \/ \E h \in Handlers : Fail(h)
    \/ CleanupOldCache
    \/ Elapse

SpecTask == ApiInit /\ [][TaskNext]_vars

\* ------------------------------------------------------------------------
\* The claims.  They read the last call and what it returned or raised.

Done == pc = "done"

Returned == pc = "done" /\ outcome.result.status = "ok"

Out == outcome.result.output

\* the options (for a relocation, the cities) the call names, as the
\* strategy visits them
Options ==
    Iterate(Get(call.structured_data,
                IF call.decision_type = "relocation" THEN "cities" ELSE "options",
                PyList(<< >>)))

\* C1: for every decision kind and every horizon N >= 1, the projections of
\* the output have exactly the names of the input list as keys, each once,
\* and every trajectory has exactly N points whose years are 1, 2, ..., N in
\* that order.
C1_ProjectionsShape ==
    Returned /\ engine.time_horizon >= 1 =>
        /\ KeySet(Out.projections) = {Options[i] : i \in DOMAIN Options}
        /\ \A i, j \in DOMAIN Out.projections :
              Out.projections[i].key = Out.projections[j].key => i = j
        /\ \A i \in DOMAIN Out.projections :
              /\ DOMAIN Out.projections[i].val = 1..engine.time_horizon
              /\ \A y \in 1..engine.time_horizon : Out.projections[i].val[y].year = y

\* an investment in two options over two years has returned
C1_Witness ==
    /\ Returned
    /\ call.decision_type = "investment"
    /\ engine.time_horizon = 2
    /\ Len(Out.projections) = 2
    /\ Out.projections[2].val[2].year = 2

\* C2: monte_carlo is None for every purchase and only for purchases; for a
\* relocation, a job and an investment it is a mapping with the keys of
\* projections, which are the names of the input list.
C2_MonteCarloNoneIffPurchase ==
    Returned =>
        /\ Out.monte_carlo.none <=> call.decision_type = "purchase"
        /\ call.decision_type # "purchase" =>
              /\ KeySet(Out.monte_carlo.dict) = KeySet(Out.projections)
              /\ KeySet(Out.monte_carlo.dict) = {Options[i] : i \in DOMAIN Options}

\* a job with two options has returned a summary for each
C2_Witness ==
    /\ Returned
    /\ call.decision_type = "job"
    /\ engine.monte_carlo_runs >= 1
    /\ ~Out.monte_carlo.none
    /\ Len(Out.monte_carlo.dict) = 2

\* C3: a call with a decision kind that is none of the four raises
\* (ValueError, "Unknown decision type"), calls no strategy, draws no variate
\* and returns no output.
C3_UnknownKindRaises ==
    Done /\ call.decision_type \notin DecisionType =>
        /\ outcome.result.status = "error"
        /\ outcome.result.error = "ValueError"
        /\ outcome.dispatched = "none"
        /\ outcome.result.src.drawn = 0
        /\ outcome.result.output = << >>

\* a call with an unknown kind has raised
C3_Witness ==
    /\ Done
    /\ call.decision_type = "marriage"
    /\ outcome.result.error = "ValueError"

\* C4, as stated: a run of an engine whose horizon or run count is below 1
\* raises before anything is computed or drawn, and returns no output.
C4_InvalidConfigRaises ==
    Done /\ (engine.time_horizon < 1 \/ engine.monte_carlo_runs < 1) =>
        /\ outcome.result.status = "error"
        /\ outcome.result.src.drawn = 0

\* the tax entry of a city in the external data of the call
C5_TaxEntry(city) ==
    Get(Get(call.external_data, "tax_rates", EmptyDict), Lower(city), EmptyDict)

\* the cost entry of a city in the external data of the call
C5_CostEntry(city) ==
    Get(Get(call.external_data, "cost_of_living", EmptyDict), Lower(city), EmptyDict)

\* the base salary of the call
C5_Salary ==
    Get(Get(call.structured_data, "user_context", EmptyDict), "salary", 80000)

\* C5: a relocation with at least one Monte Carlo run returns whatever the
\* external data lacks, with a trajectory and a summary for every city; a
\* city without cost entry has the expenses 24000 * 1.03^y (2000 a month),
\* a city without effective_rate has the net income salary * 1.02^y * 0.70,
\* also where the mappings are absent altogether.
C5_MissingExternalDataDefaults ==
    Done /\ call.decision_type = "relocation" /\ engine.monte_carlo_runs >= 1 =>
        /\ outcome.result.status = "ok"
        /\ \A i \in DOMAIN Options :
              /\ Options[i] \in KeySet(Out.projections)
              /\ Options[i] \in KeySet(Out.monte_carlo.dict)
              /\ \A y \in 1..engine.time_horizon :
                    /\ DOMAIN C5_CostEntry(Options[i]) = {} =>
                          Lookup(Out.projections, Options[i])[y].total_expenses
                          = Round2(DecMul(Dec(24000, 0), DecPow(Dec(103, 2), y)))
                    /\ "effective_rate" \notin DOMAIN C5_TaxEntry(Options[i]) =>
                          Lookup(Out.projections, Options[i])[y].net_income
                          = Round2(DecMul(DecMul(Dec(C5_Salary, 0),
                                                 DecPow(Dec(102, 2), y)),
                                          Dec(70, 2)))

\* a relocation to Berlin has returned although the tax entry of Berlin has
\* no effective_rate and there is no cost entry
C5_Witness ==
    /\ Returned
    /\ call.decision_type = "relocation"
    /\ engine.monte_carlo_runs >= 1
    /\ engine.time_horizon = 2
    /\ Str.Berlin \in KeySet(Out.projections)
    /\ "income_tax" \in DOMAIN C5_TaxEntry(Str.Berlin)
    /\ "effective_rate" \notin DOMAIN C5_TaxEntry(Str.Berlin)
    /\ DOMAIN C5_CostEntry(Str.Berlin) = {}

\* the yearly maintenance, in cents, of the option at index j of a purchase
\* with the default budget: 5 percent of 50000 * (0.8 + 0.2 * (j - 1))
C6_DefaultMaintenance(j) ==
    Round2(DecMul(DecMul(Dec(50000, 0),
                         DecAdd(Dec(8, 1), DecMul(Dec(j - 1, 0), Dec(2, 1)))),
                  Dec(5, 2)))

\* C6: a call whose factors lack an optional key returns (given at least one
\* Monte Carlo run) and uses the default: no list of options gives empty
\* projections for any configuration, no salary gives the gross income
\* 80000 * 1.02^y, no budget gives the costs of a budget of 50000, no amount
\* gives the initial amount 10000.
C6_MissingKeysDefaults ==
    /\ Done /\ call.decision_type \in DecisionType
            /\ DOMAIN call.structured_data \cap {"cities", "options"} = {} =>
          /\ outcome.result.status = "ok"
          /\ Out.projections = << >>
    /\ Done /\ call.decision_type = "relocation" /\ engine.monte_carlo_runs >= 1
            /\ "salary" \notin DOMAIN Get(call.structured_data, "user_context", EmptyDict) =>
          /\ outcome.result.status = "ok"
          /\ \A i \in DOMAIN Out.projections : \A y \in 1..engine.time_horizon :
                Out.projections[i].val[y].gross_income
                = Round2(DecMul(Dec(80000, 0), DecPow(Dec(102, 2), y)))
    /\ Done /\ call.decision_type = "purchase"
            /\ "budget" \notin DOMAIN call.structured_data =>
          /\ outcome.result.status = "ok"
          /\ \A i \in DOMAIN Out.projections : \E j \in DOMAIN Options :
                /\ Options[j] = Out.projections[i].key
                /\ \A y \in 1..engine.time_horizon :
                      Out.projections[i].val[y].maintenance_cost
                      = C6_DefaultMaintenance(j)
    /\ Done /\ call.decision_type = "investment" /\ engine.monte_carlo_runs >= 1
            /\ "amount" \notin DOMAIN call.structured_data =>
          /\ outcome.result.status = "ok"
          /\ Out.metadata.initial_amount = 10000
          /\ \A i \in DOMAIN Out.projections : \A y \in 1..engine.time_horizon :
                Out.projections[i].val[y].value
                - Out.projections[i].val[y].total_return = 10000 * 100

\* a purchase of two options without budget has returned
C6_Witness ==
    /\ Returned
    /\ call.decision_type = "purchase"
    /\ "budget" \notin DOMAIN call.structured_data
    /\ engine.time_horizon >= 1
    /\ Len(Out.projections) = 2
    /\ Out.projections[2].val[1].maintenance_cost = C6_DefaultMaintenance(2)

\* C7, as stated (for an engine with a horizon and a run count of at least
\* 1): for every decision kind the metadata of the output carry the horizon
\* and the run count of the engine, and a timestamp.
C7_MetadataCarryConfig ==
    Returned /\ engine.time_horizon >= 1 /\ engine.monte_carlo_runs >= 1 =>
        /\ {"time_horizon_years", "monte_carlo_runs", "simulation_date"}
           \subseteq DOMAIN Out.metadata
        /\ Out.metadata.time_horizon_years = engine.time_horizon
        /\ Out.metadata.monte_carlo_runs = engine.monte_carlo_runs
        /\ Out.metadata.simulation_date = clock

\* C8, as stated (for an engine with a horizon and a run count of at least
\* 1): every occurrence of a city in the input list has its own trajectory
\* and its own summary in the output, in input order.
C8_DuplicateCitiesIndependent ==
    Returned /\ call.decision_type = "relocation"
             /\ engine.time_horizon >= 1 /\ engine.monte_carlo_runs >= 1 =>
        /\ Len(Out.projections) = Len(Options)
        /\ Len(Out.monte_carlo.dict) = Len(Options)
        /\ \A i \in DOMAIN Options :
              /\ Out.projections[i].key = Options[i]
              /\ Out.monte_carlo.dict[i].key = Options[i]

\* name is key up to the case of its letters
C9_Matches(name, key) ==
    /\ Len(name) = Len(key)
    /\ \A i \in DOMAIN name :
          \/ name[i] = key[i]
          \/ name[i] \in DOMAIN LowerCase /\ LowerCase[name[i]] = key[i]

\* the expected return of the reference table for an option name
C9_Rate(name) ==
    IF C9_Matches(name, Str.stocks) THEN Dec(10, 2)
    ELSE IF C9_Matches(name, Str.bonds) THEN Dec(5, 2)
    ELSE IF C9_Matches(name, Str.real_estate) THEN Dec(7, 2)
    ELSE IF C9_Matches(name, Str.crypto) THEN Dec(15, 2)
    ELSE Dec(6, 2)

\* the amount of the call
C9_Amount == Get(call.structured_data, "amount", 10000)

\* C9: in an investment the value of an option at year y is
\* amount * (1 + r)^y rounded to cents, r being the return of the table for
\* the name whatever its case, 0.06 for a name not in the table; with the
\* amount 10000 the value at year 5 is 16105.10 for stocks and 12762.82 for
\* bonds.
C9_InvestmentValue ==
    Returned /\ call.decision_type = "investment" =>
        /\ \A i \in DOMAIN Out.projections : \A y \in 1..engine.time_horizon :
              Out.projections[i].val[y].value
              = Round2(DecMul(Dec(C9_Amount, 0),
                              DecPow(DecAdd(Dec(1, 0), C9_Rate(Out.projections[i].key)),
                                     y)))
        /\ \A i \in DOMAIN Out.projections :
              C9_Amount = 10000 /\ engine.time_horizon >= 5 =>
                 /\ Out.projections[i].key = Str.stocks =>
                       Out.projections[i].val[5].value = 1610510
                 /\ Out.projections[i].key = Str.bonds =>
                       Out.projections[i].val[5].value = 1276282

\* an investment of 10000 in stocks and bonds over 5 years has returned
C9_Witness ==
    /\ Returned
    /\ call.decision_type = "investment"
    /\ engine.time_horizon = 5
    /\ C9_Amount = 10000
    /\ KeySet(Out.projections) = {Str.stocks, Str.bonds}

\* the yearly cost of a city: 12 times the sum of its cost entry, or 24000
C10_YearlyCost(city) ==
    IF DOMAIN C5_CostEntry(city) # {} THEN SumValues(C5_CostEntry(city)) * 12
    ELSE 24000

\* the point p is the point of year y for the exact gross income, expenses
\* and net income of the year
C10_PointIs(p, gross, cost, net, y) ==
    /\ p.year = y
    /\ p.gross_income = Round2(gross)
    /\ p.total_expenses = Round2(cost)
    /\ p.net_income = Round2(net)
    /\ p.savings = Round2(DecSub(net, cost))
    /\ p.cumulative_savings = Round2(DecMul(DecSub(net, cost), Dec(y, 0)))

\* C10: in a relocation the point of every city and year y has, each rounded
\* to cents, gross income = salary * 1.02^y, expenses = yearly cost * 1.03^y,
\* net income = gross income * (1 - tax), savings = net income - expenses,
\* and cumulative savings = savings * y.
C10_RelocationFormulas ==
    Returned /\ call.decision_type = "relocation" =>
        \A i \in DOMAIN Out.projections : \A y \in 1..engine.time_horizon :
            C10_PointIs(Out.projections[i].val[y],
                DecMul(Dec(C5_Salary, 0), DecPow(Dec(102, 2), y)),
                DecMul(Dec(C10_YearlyCost(Out.projections[i].key), 0),
                       DecPow(Dec(103, 2), y)),
                DecMul(DecMul(Dec(C5_Salary, 0), DecPow(Dec(102, 2), y)),
                       DecSub(Dec(1, 0),
                              Get(C5_TaxEntry(Out.projections[i].key),
                                  "effective_rate", Dec(30, 2)))),
                y)

\* a relocation over two years has returned, and the cumulative savings of
\* year 2 are not the sum of the savings of years 1 and 2
C10_Witness ==
    /\ Returned
    /\ call.decision_type = "relocation"
    /\ engine.time_horizon = 2
    /\ Len(Out.projections) >= 1
    /\ Out.projections[1].val[2].cumulative_savings
       # Out.projections[1].val[1].savings + Out.projections[1].val[2].savings

\* the budget of the call
C11_Budget == Get(call.structured_data, "budget", Dec(50000, 0))

\* the initial cost of the option at index j (from 1) of the call:
\* budget * (0.8 + 0.2 * (j - 1))
C11_InitialCost(j) ==
    DecMul(C11_Budget, DecAdd(Dec(8, 1), DecMul(Dec(j - 1, 0), Dec(2, 1))))

\* p is the point of year y of an option of the given initial cost, whose
\* total cost starts from `paid` before the maintenance of the years
C11_PointIs(p, initial_cost, paid, y) ==
    /\ p.year = y
    /\ p.maintenance_cost = Round2(DecMul(initial_cost, Dec(5, 2)))
    /\ p.current_value = Round2(DecMul(initial_cost, DecPow(Dec(85, 2), y)))
    /\ p.total_cost_to_date
       = Round2(DecAdd(paid, DecMul(Dec(y, 0), DecMul(initial_cost, Dec(5, 2)))))
    /\ p.net_value
       = Round2(DecSub(DecMul(initial_cost, DecPow(Dec(85, 2), y)),
                       DecAdd(paid, DecMul(Dec(y, 0),
                                           DecMul(initial_cost, Dec(5, 2))))))

\* C11, amended: in a purchase the option at index i has the initial cost
\* budget * (0.8 + 0.2 i), a constant maintenance of 5 percent of it, the
\* value initial cost * 0.85^y at year y, the total cost to date initial
\* cost + y * maintenance (the price paid and the maintenance of the years
\* 1..y), and the net value value - total cost to date; each is reported
\* rounded to cents.
C11_PurchaseFormulas ==
    Returned /\ call.decision_type = "purchase" =>
        \A i \in DOMAIN Out.projections : \E j \in DOMAIN Options :
            /\ Options[j] = Out.projections[i].key
            /\ \A y \in 1..engine.time_horizon :
                  C11_PointIs(Out.projections[i].val[y], C11_InitialCost(j),
                              C11_InitialCost(j), y)

\* C11, as stated: the total cost to date at year y is the accumulated
\* maintenance of the years 1..y alone.
C11_TotalCostIsMaintenance ==
    Returned /\ call.decision_type = "purchase" =>
        \A i \in DOMAIN Out.projections : \E j \in DOMAIN Options :
            /\ Options[j] = Out.projections[i].key
            /\ \A y \in 1..engine.time_horizon :
                  C11_PointIs(Out.projections[i].val[y], C11_InitialCost(j),
                              Dec(0, 0), y)

\* a purchase of two options with the default budget over 3 years has
\* returned: the first option has cost 40000 + 3 * 2000 by year 3
C11_Witness ==
    /\ Returned
    /\ call.decision_type = "purchase"
    /\ "budget" \notin DOMAIN call.structured_data
    /\ engine.time_horizon = 3
    /\ Len(Out.projections) = 2
    /\ Out.projections[1].val[3].total_cost_to_date = 4600000

\* from each year to the next the reported value of the trajectory falls by
\* at least `step` cents and the reported total cost rises by at least `step`
C12_Monotone(trajectory, step) ==
    \A y \in DOMAIN trajectory : y + 1 \in DOMAIN trajectory =>
        /\ trajectory[y + 1].current_value + step <= trajectory[y].current_value
        /\ trajectory[y + 1].total_cost_to_date >= trajectory[y].total_cost_to_date + step

\* C12, amended: in a purchase with a positive budget the reported value of
\* every option never rises and the reported total cost never falls from a
\* year to the next; both change strictly for a budget of at least 1 (over
\* the horizons here), and with the budget 50000 the options A, B have the
\* initial costs 40000 and 50000 (a first-year value of 34000 and 42500, a
\* first-year total cost of 42000 and 52500).
C12_PurchaseMonotone ==
    Returned /\ call.decision_type = "purchase" /\ DecSign(C11_Budget) > 0 =>
        /\ \A i \in DOMAIN Out.projections :
              /\ C12_Monotone(Out.projections[i].val, 0)
              /\ ~DecLess(C11_Budget, Dec(1, 0)) =>
                    C12_Monotone(Out.projections[i].val, 1)
        /\ /\ DecSign(DecSub(C11_Budget, Dec(50000, 0))) = 0
           /\ Options = <<Str.A, Str.B>>
           /\ engine.time_horizon >= 1
           => /\ Out.projections[1].val[1].current_value = 3400000
              /\ Out.projections[1].val[1].total_cost_to_date = 4200000
              /\ Out.projections[2].val[1].current_value = 4250000
              /\ Out.projections[2].val[1].total_cost_to_date = 5250000

\* C12, as stated: with any positive budget the value strictly decreases
\* and the total cost strictly increases from each year to the next.
C12_StrictForAnyBudget ==
    Returned /\ call.decision_type = "purchase" /\ DecSign(C11_Budget) > 0 =>
        \A i \in DOMAIN Out.projections : C12_Monotone(Out.projections[i].val, 1)

\* a purchase of A and B with the budget 50000 over 3 years has returned
C12_Witness ==
    /\ Returned
    /\ call.decision_type = "purchase"
    /\ DecSign(DecSub(C11_Budget, Dec(50000, 0))) = 0
    /\ Options = <<Str.A, Str.B>>
    /\ engine.time_horizon = 3
    /\ Out.projections[2].val[3].current_value < Out.projections[2].val[2].current_value

\* the salary at year y of the option at index j (from 1) of a job:
\* (70000 + 15000 (j - 1)) * (1 + 0.05 + 0.02 (j - 1))^y
C13_Salary(j, y) ==
    DecMul(Dec(70000 + 15000 * (j - 1), 0),
           DecPow(DecAdd(Dec(1, 0),
                         DecAdd(Dec(5, 2), DecMul(Dec(2, 2), Dec(j - 1, 0)))),
                  y))

\* the sum of the salaries of the years 1..y
RECURSIVE C13_Earnings(_, _)
C13_Earnings(j, y) ==
    IF y = 0 THEN Dec(0, 0) ELSE DecAdd(C13_Earnings(j, y - 1), C13_Salary(j, y))

\* C13: in a job the option at index i has the base salary 70000 + 15000 i
\* and the growth rate 0.05 + 0.02 i; its salary at year y is
\* base * (1 + growth)^y and its cumulative earnings are the sum of the
\* salaries of the years 1..y, each reported rounded to cents (the growth
\* rate as a percentage with one decimal).
C13_JobFormulas ==
    Returned /\ call.decision_type = "job" =>
        \A i \in DOMAIN Out.projections : \E j \in DOMAIN Options :
            /\ Options[j] = Out.projections[i].key
            /\ \A y \in 1..engine.time_horizon :
                  /\ Out.projections[i].val[y].salary = Round2(C13_Salary(j, y))
                  /\ Out.projections[i].val[y].cumulative_earnings
                     = Round2(C13_Earnings(j, y))
                  /\ Out.projections[i].val[y].growth_rate = 50 + 20 * (j - 1)

\* a job with two options over two years has returned: the second option
\* earns 85000 * 1.07 in year 1, and its earnings of year 2 are more than
\* the salary of year 2
C13_Witness ==
    /\ Returned
    /\ call.decision_type = "job"
    /\ engine.time_horizon = 2
    /\ Len(Out.projections) = 2
    /\ Out.projections[2].val[1].salary = 9095000
    /\ Out.projections[2].val[2].cumulative_earnings
       = Out.projections[2].val[1].salary + Out.projections[2].val[2].salary

\* the summaries of the output, as a sequence of items
Summaries == Out.monte_carlo.dict

\* the percentiles named by keys are in ascending order in the summary s
C14_Ascending(s, keys) ==
    \A a, b \in DOMAIN keys : a < b => s[keys[a]] <= s[keys[b]]

\* C14: every summary produced from a non-empty sample has std >= 0 and its
\* percentiles in order: p5 <= p25 <= p50 <= p75 <= p95 where all five are
\* present (relocation, investment), p5 <= p95 for a job.
C14_SummaryOrdered ==
    Returned /\ engine.monte_carlo_runs >= 1 /\ ~Out.monte_carlo.none =>
        \A i \in DOMAIN Summaries :
            /\ Summaries[i].val.std >= 0
            /\ C14_Ascending(Summaries[i].val, <<"p5", "p95">>)
            /\ call.decision_type # "job" =>
                  C14_Ascending(Summaries[i].val, <<"p5", "p25", "p50", "p75", "p95">>)

\* an investment has returned a summary of two different terminal values
C14_Witness ==
    /\ Returned
    /\ call.decision_type = "investment"
    /\ engine.monte_carlo_runs = 2
    /\ engine.time_horizon >= 1
    /\ Len(Summaries) >= 1
    /\ Summaries[1].val.p5 < Summaries[1].val.p25
    /\ Summaries[1].val.p75 < Summaries[1].val.p95
    /\ Summaries[1].val.std > 0

\* the terminal values the sampler collects for the option at index j (from
\* 1) of an investment: run k starts where the runs before it, and the
\* options before j, have left the random source
C15_Values(j) ==
    [k \in 1..engine.monte_carlo_runs |->
        InvestmentTrial(Dec(C9_Amount, 0),
            Get(investment_params, Lower(Options[j]),
                [return |-> Dec(6, 2), volatility |-> Dec(12, 2)]).return,
            Get(investment_params, Lower(Options[j]),
                [return |-> Dec(6, 2), volatility |-> Dec(12, 2)]).volatility,
            engine.time_horizon,
            Advance(Source(call.rng),
                    ((j - 1) * engine.monte_carlo_runs + (k - 1))
                    * engine.time_horizon))]

\* the number of terminal values strictly below the initial amount
C15_Losses(values) ==
    Cardinality({k \in DOMAIN values :
                   DecSign(DecSub(values[k], Dec(C9_Amount, 0))) < 0})

\* prob_loss, in hundredths of a percent, is within [0, 100] percent, is 0
\* for a sample without loss and 100 for a sample of losses only
C15_InRange(prob_loss, values) ==
    /\ prob_loss >= 0
    /\ prob_loss <= 100 * 100
    /\ C15_Losses(values) = 0 => prob_loss = 0
    /\ C15_Losses(values) = Len(values) => prob_loss = 100 * 100

\* C15: in every investment with a non-empty sample prob_loss lies in
\* [0, 100]; it is 0 when no terminal value is below the initial amount and
\* 100 when all are.
C15_ProbLossRange ==
    Returned /\ call.decision_type = "investment" /\ engine.monte_carlo_runs >= 1 =>
        \A i \in DOMAIN Summaries : \E j \in DOMAIN Options :
            /\ Options[j] = Summaries[i].key
            /\ C15_InRange(Summaries[i].val.prob_loss, C15_Values(j))

\* an investment over a year has returned a summary whose terminal values
\* are all below the amount, and a summary without loss
C15_Witness ==
    /\ Returned
    /\ call.decision_type = "investment"
    /\ engine.monte_carlo_runs >= 1
    /\ engine.time_horizon = 1
    /\ Len(Summaries) = 2
    /\ Summaries[1].val.prob_loss = 100 * 100
    /\ Summaries[2].val.prob_loss = 0

\* prob_loss, in hundredths of a percent, is 100 * losses / n rounded
C16_IsPercentage(prob_loss, losses, n) ==
    /\ 2 * (prob_loss * n - 100 * 100 * losses) <= n
    /\ 2 * (100 * 100 * losses - prob_loss * n) <= n

\* C16, amended: in every investment prob_loss is the percentage
\* 100 * count(terminal value < initial amount) / sample count, rounded to 2
\* decimals; a terminal value equal to the initial amount is no loss.
C16_ProbLossIsPercentage ==
    Returned /\ call.decision_type = "investment" /\ engine.monte_carlo_runs >= 1 =>
        \A i \in DOMAIN Summaries : \E j \in DOMAIN Options :
            /\ Options[j] = Summaries[i].key
            /\ C16_IsPercentage(Summaries[i].val.prob_loss,
                                C15_Losses(C15_Values(j)), engine.monte_carlo_runs)

\* C16, as stated: prob_loss equals count(terminal value < initial amount)
\* / sample count, the fraction itself (0.5 is 50 hundredths).
C16_ProbLossIsFraction ==
    Returned /\ call.decision_type = "investment" /\ engine.monte_carlo_runs >= 1 =>
        \A i \in DOMAIN Summaries : \E j \in DOMAIN Options :
            /\ Options[j] = Summaries[i].key
            /\ Summaries[i].val.prob_loss * engine.monte_carlo_runs
               = 100 * C15_Losses(C15_Values(j))

\* an investment in bonds over one year has returned: one of its two
\* terminal values is a loss for the first option, and the second option has
\* a terminal value equal to the amount, which is no loss
C16_Witness ==
    /\ Returned
    /\ call.decision_type = "investment"
    /\ engine.monte_carlo_runs = 2
    /\ engine.time_horizon = 1
    /\ Len(Summaries) = 2
    /\ Summaries[1].val.prob_loss = 50 * 100
    /\ Summaries[2].key = Str.bonds
    /\ Summaries[2].val.prob_loss = 0
    /\ \E k \in 1..2 : DecSign(DecSub(C15_Values(2)[k], Dec(C9_Amount, 0))) = 0

\* the projections of the same call on the same engine, made with the
\* random source at the next position of the tape
C17_ProjectionsElsewhere ==
    run_simulation(engine, call.decision_type, call.structured_data,
                   call.external_data, Source((call.rng % Len(ZTape)) + 1),
                   clock, "nan").result.output.projections

\* C17: the projections of a call are those of the same call (same kind,
\* factors, external data and horizon) made with the random source in
\* another state: same keys, same yearly points.
C17_ProjectionsDeterministic ==
    Returned => Out.projections = C17_ProjectionsElsewhere

\* an investment in two options has returned after its sampler has drawn
\* from the random source
C17_Witness ==
    /\ Returned
    /\ call.decision_type = "investment"
    /\ engine.time_horizon = 2
    /\ engine.monte_carlo_runs = 2
    /\ outcome.result.src.drawn = 8
    /\ Len(Out.projections) = 2

\* what a call with the inputs recorded in c returns or raises on the engine
\* e, with the random source at position r and the clock at t, for either
\* behaviour of numpy on an empty sample
C18_Results(e, c, r, t) ==
    {run_simulation(e, c.decision_type, c.structured_data, c.external_data,
                    Source(r), t, policy) : policy \in EmptySamplePolicies}

C19_Names ==
    Get(call.structured_data,
        IF call.decision_type = "relocation" THEN "cities" ELSE "options",
        PyList(<< >>))

\* C19, as stated: a call, on an engine with a horizon and a run count of
\* at least 1, whose options (for a relocation, cities) are a single string
\* instead of a sequence of names raises and returns no output.
C19_MalformedFactorsRaises ==
    /\ Done /\ engine.time_horizon >= 1 /\ engine.monte_carlo_runs >= 1
    /\ call.decision_type \in DecisionType /\ C19_Names.type = "str"
    =>
        /\ outcome.result.status = "error"
        /\ outcome.result.output = << >>

\* the cost_of_living mapping of the external data of the call
C20_CostOfLiving == Get(call.external_data, "cost_of_living", EmptyDict)

\* the keys of the cost_of_living mapping that are the name of the city when
\* the case of the letters is ignored
C20_Keys(city) == {k \in DOMAIN C20_CostOfLiving : Lower(k) = Lower(city)}

\* the yearly cost of a city by a lookup that ignores the case of the key
C20_YearlyCost(city) ==
    IF C20_Keys(city) = {} THEN 24000
    ELSE SumValues(C20_CostOfLiving[CHOOSE k \in C20_Keys(city) : TRUE]) * 12

\* C20, as stated: in a relocation on an engine with a horizon and a run
\* count of at least 1, the expenses of year y of every city are
\* 12 times the sum of the cost entry whose key is the name of the city
\* ignoring case, times 1.03^y, and 12 * 2000 times 1.03^y only when no key
\* matches ignoring case.
C20_CaseInsensitiveLookup ==
    /\ Returned /\ engine.time_horizon >= 1 /\ engine.monte_carlo_runs >= 1
    /\ call.decision_type = "relocation"
    =>
        \A i \in DOMAIN Out.projections : \A y \in 1..engine.time_horizon :
            Out.projections[i].val[y].total_expenses
                = Round2(DecMul(Dec(C20_YearlyCost(Out.projections[i].key), 0),
                                DecPow(Dec(103, 2), y)))

\* the key under which the factors of the call name their options
C21_ListKey == IF call.decision_type = "relocation" THEN "cities" ELSE "options"

\* a name that is not the given one
C21_Other(name) == IF name = Str.gold THEN Str.bonds ELSE Str.gold

\* the place of the last occurrence of a name among the options of the call
C21_Last(name) ==
    CHOOSE i \in DOMAIN Options :
        Options[i] = name /\ \A j \in DOMAIN Options : j > i => Options[j] # name

\* the trajectory the call returns for the option at place i when every other
\* place of the list holds another name, everything else being as in the call
C21_Apart(i) ==
    Lookup(run_simulation(engine, call.decision_type,
               (C21_ListKey :> PyList([j \in DOMAIN Options |->
                                         IF j = i THEN Options[i]
                                         ELSE C21_Other(Options[i])]))
               @@ call.structured_data,
               call.external_data, Source(call.rng), clock, "nan"
           ).result.output.projections,
           Options[i])

\* C21: a call that raises hands no output to the caller, whatever had been
\* computed for the options before the failure; and in a call that returns,
\* the trajectory of every option is the one computed at its place in the
\* list whatever the other options of the list are, so the computation of no
\* other option has altered it.
C21_AllOrNothing ==
    /\ Done /\ outcome.result.status = "error" => outcome.result.output = << >>
    /\ Returned =>
          \A i \in DOMAIN Out.projections :
              Out.projections[i].val = C21_Apart(C21_Last(Out.projections[i].key))

\* a run has returned two options with different trajectories over 2 years
C21_Witness ==
    /\ Returned
    /\ engine.time_horizon = 2
    /\ Len(Out.projections) = 2
    /\ Out.projections[1].val # Out.projections[2].val
    /\ Out.projections[1].val # << >>

\* a run has raised after the trajectory of its first option was stored: the
\* sampler of the option found its sample empty
C21_RaisedAfterFirstOption ==
    /\ Done
    /\ outcome.result.error = "IndexError"
    /\ Len(Options) = 2
    /\ outcome.result.trials = <<0>>

\* ------------------------------------------------------------------------
\* Runs that go on at the same time.

\* what the call of run t returns or raises when no other run draws from the
\* source: the whole call, from the position the source had when t started
C22_Alone(t) ==
    run_simulation(task[t].self, task[t].decision_type, task[t].structured_data,
                   task[t].external_data, Source(task[t].start), clock, "nan").result

\* the terminal value of a trial that starts from (value, cost, cumulative)
\* and receives the variates zs, two a year for the savings sampler and one a
\* year for the others
RECURSIVE C22_Terminal(_, _, _, _, _)
RECURSIVE C22_SavingsYear(_, _, _, _, _)
C22_Terminal(plan, zs, value, cost, cumulative) ==
    IF zs = << >>
    THEN IF plan.sampler = "savings" THEN cumulative ELSE value
    ELSE IF plan.sampler = "savings"
    THEN C22_SavingsYear(plan, SubSeq(zs, 3, Len(zs)),
             DecMul(value, DecAdd(Dec(102, 2), DecMul(Dec(2, 2), Dec(zs[1], 0)))),
             DecMul(cost, DecAdd(Dec(103, 2), DecMul(Dec(1, 2), Dec(zs[2], 0)))),
             cumulative)
    ELSE C22_Terminal(plan, Tail(zs),
             DecMul(value, DecAdd(Dec(1, 0),
                                  DecAdd(plan.mu, DecMul(plan.sigma, Dec(zs[1], 0))))),
             cost, cumulative)

\* the year of a savings trial whose salary and cost are those of the year
C22_SavingsYear(plan, zs, value, cost, cumulative) ==
    C22_Terminal(plan, zs, value, cost,
        DecAdd(cumulative,
               DecSub(DecMul(value, DecSub(Dec(1, 0), plan.tax_rate)), cost)))

\* the number of variates a trial of run t draws
C22_DrawsPerTrial(t) ==
    task[t].self.time_horizon * (IF task[t].plan.sampler = "savings" THEN 2 ELSE 1)

\* the output of run t has the shape of o: the same option names in
\* projections and in monte_carlo, the same statistics for each, the same
\* metadata fields
C22_SameShape(out, o) ==
    /\ KeySet(out.projections) = KeySet(o.projections)
    /\ KeySet(out.monte_carlo.dict) = KeySet(o.monte_carlo.dict)
    /\ \A i \in DOMAIN out.monte_carlo.dict :
          DOMAIN out.monte_carlo.dict[i].val
              = DOMAIN Lookup(o.monte_carlo.dict, out.monte_carlo.dict[i].key)
    /\ DOMAIN out.metadata = DOMAIN o.metadata

\* the result of a run is that of the run alone: the same return or raise,
\* and for a return the same projections and the same shape
C22_Agrees(result, alone) ==
    /\ result.status = alone.status
    /\ result.error = alone.error
    /\ result.status = "ok" =>
          /\ result.output.projections = alone.output.projections
          /\ C22_SameShape(result.output, alone.output)

\* C22: however the steps of two runs interleave, a run that has ended has
\* returned (or raised) as it does alone, with the projections and the output
\* shape it has alone; and when a sampler of a run reduces its sample, the
\* sample holds exactly monte_carlo_runs terminal values, each computed from
\* the variates that this run itself has drawn for the trial.
C22_RunsIndependent ==
    \A t \in Tasks :
        /\ task[t].pc = "done" => C22_Agrees(task[t].result, C22_Alone(t))
        /\ task[t].pc = "trial" /\ task[t].k >= task[t].self.monte_carlo_runs =>
              /\ Len(task[t].final) = task[t].self.monte_carlo_runs
              /\ Len(task[t].zs) = task[t].self.monte_carlo_runs * C22_DrawsPerTrial(t)
              /\ \A j \in DOMAIN task[t].final :
                    task[t].final[j]
                        = C22_Terminal(task[t].plan,
                              SubSeq(task[t].zs, (j - 1) * C22_DrawsPerTrial(t) + 1,
                                     j * C22_DrawsPerTrial(t)),
                              task[t].plan.value, task[t].plan.cost, Dec(0, 0))

\* two runs have ended whose draws were interleaved: both returned, and the
\* summaries of each differ from those it returns alone
C22_Witness ==
    /\ \A t \in Tasks :
          /\ task[t].pc = "done"
          /\ task[t].result.status = "ok"
          /\ task[t].result.output.monte_carlo # C22_Alone(t).output.monte_carlo
    /\ task[1].self # task[2].self

\* the salary, the cost and the running sum of savings of a savings trial
\* after y years, the trial starting from the arguments of the sampler and
\* receiving the variates zs (a growth and an inflation variate a year)
RECURSIVE C25_Salary(_, _, _)
C25_Salary(plan, zs, y) ==
    IF y = 0 THEN plan.value
    ELSE DecMul(C25_Salary(plan, zs, y - 1),
                DecAdd(Dec(1, 0),
                       DecAdd(Dec(2, 2), DecMul(Dec(2, 2), Dec(zs[2 * y - 1], 0)))))

RECURSIVE C25_Cost(_, _, _)
C25_Cost(plan, zs, y) ==
    IF y = 0 THEN plan.cost
    ELSE DecMul(C25_Cost(plan, zs, y - 1),
                DecAdd(Dec(1, 0),
                       DecAdd(Dec(3, 2), DecMul(Dec(1, 2), Dec(zs[2 * y], 0)))))

RECURSIVE C25_RunningSum(_, _, _)
C25_RunningSum(plan, zs, y) ==
    IF y = 0 THEN Dec(0, 0)
    ELSE DecAdd(C25_RunningSum(plan, zs, y - 1),
                DecSub(DecMul(C25_Salary(plan, zs, y),
                              DecSub(Dec(1, 0), plan.tax_rate)),
                       C25_Cost(plan, zs, y)))

\* the variates a sampler draws a year
C25_DrawsPerYear(tk) == IF tk.plan.sampler = "savings" THEN 2 ELSE 1

\* a run is inside a sampler
C25_Sampling(tk) == tk.pc \in {"trial", "year", "inflation"}

\* the steps a sampler has left at most: a trial takes its start, at most
\* two steps a year and the append; the reduction is the last step
C25_StepsLeft(tk) ==
    CASE tk.pc = "trial" ->
           (tk.self.monte_carlo_runs - tk.k) * (2 * tk.self.time_horizon + 2) + 1
      [] tk.pc = "year" ->
           (tk.self.monte_carlo_runs - tk.k - 1) * (2 * tk.self.time_horizon + 2)
           + 2 + 2 * (tk.self.time_horizon - tk.year)
      [] tk.pc = "inflation" ->
           (tk.self.monte_carlo_runs - tk.k - 1) * (2 * tk.self.time_horizon + 2)
           + 1 + 2 * (tk.self.time_horizon - tk.year)
      [] OTHER -> 0

\* what holds of a run inside a sampler: k trials are over and k terminal
\* values collected, never more than monte_carlo_runs; every trial over has
\* drawn for exactly time_horizon years and the one going on for `year`
\* years; a trial starts from the arguments of the sampler and cumulative
\* savings 0; a terminal value of the savings sampler is the running sum of
\* net income minus cost over the years of its trial
C25_Counts(tk) ==
    /\ tk.k <= tk.self.monte_carlo_runs
    /\ Len(tk.final) = tk.k
    /\ tk.pc # "trial" => tk.k < tk.self.monte_carlo_runs /\ tk.year <= tk.self.time_horizon
    /\ Len(tk.zs) = tk.k * tk.self.time_horizon * C25_DrawsPerYear(tk)
                    + (IF tk.pc = "trial" THEN 0
                       ELSE tk.year * C25_DrawsPerYear(tk)
                            + (IF tk.pc = "inflation" THEN 1 ELSE 0))
    /\ tk.pc = "year" /\ tk.year = 0 =>
          /\ tk.value = tk.plan.value
          /\ tk.cost = tk.plan.cost
          /\ tk.cumulative_savings = Dec(0, 0)
    /\ tk.plan.sampler = "savings" =>
          \A j \in DOMAIN tk.final :
              tk.final[j]
                  = C25_RunningSum(tk.plan,
                        SubSeq(tk.zs, (j - 1) * 2 * tk.self.time_horizon + 1,
                               j * 2 * tk.self.time_horizon),
                        tk.self.time_horizon)

\* C25: a sampler ends after exactly monte_carlo_runs trials of exactly
\* time_horizon yearly updates each: inside a sampler the counts above hold
\* and every step of the run leaves it fewer steps to go; every trial starts
\* from the arguments of the sampler, one terminal value is collected a
\* trial, and the terminal value of a savings trial is the running sum over
\* the years of net income minus cost.
C25_SamplerTrials ==
    [][\A t \in Tasks :
          C25_Sampling(task[t]) =>
              /\ C25_Counts(task[t])
              /\ task'[t] # task[t] =>
                    /\ C25_StepsLeft(task'[t]) < C25_StepsLeft(task[t])
                    /\ C25_StepsLeft(task'[t]) >= 0]_vars

\* both runs are relocations about to reduce their samples, one of 2 trials
\* of a year with different terminal values, the other of a trial of 2 years
C25_Witness ==
    /\ \A t \in Tasks :
          /\ task[t].pc = "trial"
          /\ task[t].k = task[t].self.monte_carlo_runs
          /\ task[t].plan.sampler = "savings"
    /\ task[1].self = SimulationEngineInit(1, 2)
    /\ task[1].final[1] # task[1].final[2]
    /\ task[2].self = SimulationEngineInit(2, 1)

\* ------------------------------------------------------------------------
\* The claims about the callers: the endpoints and the tasks of the worker.

\* the request or task of slot h is under way or has ended
Busy(h) == handler[h].pc # "idle"

\* FastAPI answered the request without calling the handler, and the step
\* left the tables as they were
C24_Rejected(h) ==
    /\ handler'[h].pc = "ended"
    /\ handler'[h].response.status_code \in {422, 500}
    /\ ~handler'[h].response.success
    /\ scenarios' = scenarios
    /\ simulations' = simulations

\* C24: a POST /simulate request whose query has fewer than 3 characters is
\* answered with an error (HTTP 422 or 500) before the handler runs, and no
\* Scenario and no Simulation row is created; a SimulationInput with a query
\* shorter than 3 characters fails validation (and the POST /simulations
\* request that carries it is rejected likewise), while one with a query of
\* 3 or more characters and horizon 5 is accepted with the query and the
\* horizon unchanged.
C24_ShortQueryRejected ==
    [][\A h \in Handlers :
          /\ \A raw \in QuickParams :
                Len(raw.query) < 3 /\ QuickSimulation(h, raw) => C24_Rejected(h)
          /\ \A body \in SimulationBodies :
                CreateSimulation(h, body) =>
                    /\ Len(body.input_data.query) < 3 =>
                          /\ SimulationInput(body.input_data).errors # {}
                          /\ C24_Rejected(h)
                    /\ /\ Len(body.input_data.query) >= 3
                       /\ body.input_data.time_horizon_years = Sent(5)
                       /\ body.input_data.monte_carlo_runs \in {Unset, SentNull}
                       => /\ SimulationInput(body.input_data).errors = {}
                          /\ SimulationInput(body.input_data).value.query
                                 = body.input_data.query
                          /\ SimulationInput(body.input_data).value.time_horizon_years = 5
                          /\ body.scenario_id \in DOMAIN scenarios =>
                                /\ Len(simulations') = Len(simulations) + 1
                                /\ simulations'[Len(simulations')].input_data
                                       = SimulationInput(body.input_data).value]_vars

\* a POST /simulate request with the query "1" was answered 422 for the
\* length of the query, with no Scenario and no Simulation row created
C24_Witness ==
    /\ handler[1].pc = "ended"
    /\ handler[1].op = "quick_simulation"
    /\ handler[1].response.status_code = 422
    /\ [loc |-> "query", type |-> "string_too_short"] \in handler[1].response.errors
    /\ scenarios = <<[decision_type |-> "relocation"]>>
    /\ simulations = << >>

\* the engine of slot h has been constructed by create_simulation
C30_Constructed(h) ==
    /\ handler[h].pc \in {"store", "except"}
    /\ handler[h].op = "create_simulation"
    /\ handler[h].engine.constructed

\* C30: every engine constructed by create_simulation, called directly or by
\* quick_simulation, has 1 <= time_horizon_years <= 30 (<= 20 through
\* quick_simulation) and 100 <= monte_carlo_runs <= 10000, and
\* monte_carlo_runs = 1000 when the request leaves it null or unset.
C30_ValidRunConfig ==
    /\ \A h \in Handlers :
          Busy(h) /\ C30_Constructed(h) =>
              /\ handler[h].engine.self.time_horizon >= 1
              /\ handler[h].engine.self.time_horizon <= 30
              /\ handler[h].engine.self.monte_carlo_runs >= 100
              /\ handler[h].engine.self.monte_carlo_runs <= 10000
              /\ handler[h].input_data.monte_carlo_runs.none =>
                    handler[h].engine.self.monte_carlo_runs = 1000
              /\ handler[h].via = "quick_simulation" =>
                    /\ handler[h].engine.self.time_horizon <= 20
                    /\ handler[h].engine.self.monte_carlo_runs = 1000
    /\ \A body \in SimulationBodies :
          /\ SimulationInput(body.input_data).errors = {}
          /\ body.input_data.monte_carlo_runs \in {Unset, SentNull}
          => Or1000(SimulationInput(body.input_data).value.monte_carlo_runs) = 1000

\* create_simulation has constructed its engine from a request that sent
\* monte_carlo_runs as null: the engine makes 1000 runs over 5 years
C30_Witness ==
    /\ Busy(1) /\ C30_Constructed(1)
    /\ handler[1].via = "create_simulation"
    /\ handler[1].input_data.monte_carlo_runs.none
    /\ handler[1].engine.self = SimulationEngineInit(5, 1000)

\* create_simulation, called by quick_simulation with a horizon of 20 years,
\* has constructed its engine
C30_QuickWitness ==
    /\ Busy(1) /\ C30_Constructed(1)
    /\ handler[1].via = "quick_simulation"
    /\ handler[1].engine.self = SimulationEngineInit(20, 1000)

\* the row the request or task of slot h works on
C23_Row(h) == simulations[handler[h].simulation_id]

\* the except clause of slot h has run in the step: the row is FAILED with
\* the message of the exception, its result_json is the one it had, and the
\* caller reports the failure with the message
C23_Recorded(h) ==
    /\ handler'[h].pc = "ended"
    /\ simulations'[handler[h].simulation_id].status = SimulationStatus.FAILED
    /\ simulations'[handler[h].simulation_id].error_message
           = SomeText(handler[h].error.message)
    /\ simulations'[handler[h].simulation_id].result_json = C23_Row(h).result_json
    /\ ~handler'[h].response.success
    /\ handler'[h].response.detail = handler[h].error.message
    /\ handler[h].op = "create_simulation" =>
          /\ handler'[h].response.status_code = 500
          /\ handler'[h].response.message = "Simulation failed"

C23_TaskWitness ==
    /\ handler[1].pc = "ended"
    /\ handler[1].op = "run_heavy_simulation"
    /\ ~handler[1].response.success
    /\ handler[1].response.detail = "UNIQUE constraint failed: cached_data.cache_key"
    /\ C23_Row(1).status = SimulationStatus.FAILED
    /\ C23_Row(1).error_message
           = SomeText("UNIQUE constraint failed: cached_data.cache_key")

\* a row that is COMPLETED has a result and a completion time, a row that is
\* FAILED has an error message
C26_RowConsistent(row) ==
    /\ row.status = SimulationStatus.COMPLETED =>
          ~row.result_json.none /\ ~row.completed_at.none
    /\ row.status = SimulationStatus.FAILED => ~row.error_message.none

\* the create_simulation call of slot h, having inserted its row, ends in the
\* step
C26_CallEnds(h) ==
    /\ Busy(h) /\ handler[h].pc \notin {"idle", "ended"}
    /\ handler[h].op = "create_simulation"
    /\ handler[h].simulation_id # 0
    /\ handler'[h].pc = "ended"

C26_FailedWitness ==
    /\ handler[1].pc = "ended"
    /\ handler[1].op = "create_simulation"
    /\ handler[1].response.status_code = 500
    /\ C23_Row(1).status = SimulationStatus.FAILED
    /\ ~C23_Row(1).error_message.none
    /\ handler[2].pc \in {"get", "set", "engine", "store"}
    /\ handler[2].simulation_id = handler[1].simulation_id

\* the statuses a Simulation row ends in
C27_Terminal == {SimulationStatus.COMPLETED, SimulationStatus.FAILED}

\* C27: once a Simulation row is COMPLETED or FAILED, no later step of
\* create_simulation, quick_simulation, run_heavy_simulation, get_simulation
\* or list_scenario_simulations changes its status or its result_json.
C27_TerminalIsFinal ==
    [][\A id \in DOMAIN simulations :
          simulations[id].status \in C27_Terminal =>
              /\ simulations'[id].status = simulations[id].status
              /\ simulations'[id].result_json = simulations[id].result_json]_vars

\* run_heavy_simulation has been started on a row that was COMPLETED and has
\* set it RUNNING
C27_Reopened ==
    \E h \in Handlers :
        /\ handler[h].pc \in {"get", "set", "engine", "store", "except"}
        /\ handler[h].op = "run_heavy_simulation"
        /\ ~C23_Row(h).result_json.none
        /\ ~C23_Row(h).completed_at.none
        /\ C23_Row(h).status = SimulationStatus.RUNNING

\* the rows of the key of the fetch slot h is at, and those of them that are
\* unexpired
C28_OfKey(rows, h) == {r \in rows : r.cache_key = Key(handler[h])}

C28_Unexpired(h) == _get_cached(cached_data, Key(handler[h]), clock)

\* C28: a get_cost_of_living / get_tax_rates call made while an unexpired
\* entry of its key exists returns the data of that entry and adds no row;
\* a call made when there is none, the entry having expired or never
\* existed, completes without error, returns fresh data and leaves at most
\* one row of the key.
C28_CacheServes ==
    [][\A h \in Handlers :
          /\ (Busy(h) /\ handler[h].pc = "get" /\ handler'[h] # handler[h]
                /\ C28_Unexpired(h) # {}) =>
                /\ cached_data' = cached_data
                /\ handler'[h].pc # "except"
                /\ \E r \in C28_Unexpired(h) :
                      handler'[h].external_data[Fetches[handler[h].f].into]
                          [Lower(City(handler[h]))] = r.data
          /\ (Busy(h) /\ handler[h].pc = "set" /\ handler'[h] # handler[h]) =>
                /\ handler'[h].pc # "except"
                /\ handler'[h].external_data[Fetches[handler[h].f].into]
                       [Lower(City(handler[h]))]
                     = MockData(handler[h].f, City(handler[h]))
                /\ Cardinality(C28_OfKey(cached_data', h)) <= 1]_vars

\* the part of C28 that holds: an unexpired entry is served as it is and no
\* row is added
C28_UnexpiredServed ==
    [][\A h \in Handlers :
          (Busy(h) /\ handler[h].pc = "get" /\ handler'[h] # handler[h]
             /\ C28_Unexpired(h) # {}) =>
             /\ cached_data' = cached_data
             /\ handler'[h].pc # "except"
             /\ \E r \in C28_Unexpired(h) :
                   handler'[h].external_data[Fetches[handler[h].f].into]
                       [Lower(City(handler[h]))] = r.data]_vars

\* a fetch after expiry has failed on the row that expired
C28_ExpiredRowBlocks ==
    \E h \in Handlers :
        /\ handler[h].pc = "except"
        /\ handler[h].error.type = "IntegrityError"
        /\ \E r \in cached_data : r.cache_key = Key(handler[h]) /\ ~(r.expires_at > clock)


\* C29: of two relocation simulations that run at the same time and fetch
\* the data of the same city that is not cached yet, neither fails in its
\* cache insert: with no expired row in the table, no step of _set_cached
\* raises on the unique cache_key.
C29_BothComplete ==
    [][\A h \in Handlers :
          (/\ Busy(h) /\ handler[h].pc = "set" /\ handler'[h] # handler[h]
           /\ \A r \in cached_data : r.expires_at > clock) =>
              handler'[h].pc # "except"]_vars

\* both lookups missed, the first insert is committed and the second has
\* failed on the key: one simulation goes on, the other is about to end
\* FAILED
C29_SecondInsertFails ==
    \E h \in Handlers :
        \E g \in Handlers \ {h} :
            /\ Busy(h) /\ Busy(g)
            /\ handler[h].op = "create_simulation"
            /\ handler[h].pc = "except"
            /\ handler[h].error.type = "IntegrityError"
            /\ handler[g].op = "create_simulation"
            /\ handler[g].pc \in {"get", "set", "engine", "store"}
            /\ \A r \in cached_data : r.expires_at > clock
====
